---- MODULE Spec2Model ----
(***************************************************************************)
(* Condition-wait subsystem of maestro-cli: the condition-expression       *)
(* evaluator (evaluateConditionExpression and its helpers), the polling    *)
(* loop WaitForCondition, and the watch loop runWatchCommand with its      *)
(* exponential backoff (updateBackoffInterval).                            *)
(*                                                                         *)
(* Go strings are modelled as sequences of one-character strings, so that  *)
(* trimming, prefix tests, word splitting and paren scanning are computed  *)
(* the way the code computes them.                                         *)
(***************************************************************************)
EXTENDS Integers, Sequences, FiniteSets, TLC

VARIABLES
    pc,                  \* position of the running function
    expr,                \* conditionExpr
    details,             \* the snapshot last acquired (details)
    result,              \* conditionMet / the value returned by the evaluator
    ctx,                 \* "live", "canceled" or "deadline" (ctx.Err())
    ticker,              \* "none", "running" or "stopped"
    tickerInterval,      \* the period the ticker was last programmed with
    tickPending,         \* a tick is waiting in ticker.C
    ret,                 \* what the function returned
    pollInterval,        \* pollInterval / baseInterval
    callback,            \* a WaitCallback was supplied
    acquisitions,        \* history: acquisitions started
    sinkCalls,           \* history: callback invocations
    failedPolls,         \* history: failed acquisitions since the last success
    lastAcq,             \* history: outcome of the last acquisition
    consecutiveFailures, \* runWatchCommand's counter
    currentInterval,     \* runWatchCommand's currentInterval
    okAcqs,              \* history: acquisitions that returned a result
    errAcqs,             \* history: acquisitions that returned an error
    sinkErrs,            \* history: callback invocations that returned an error
    command,             \* the CLI command that runs the wait, "none" for a direct call
    timeout,             \* flags.Timeout
    waitTimeout,         \* waitTimeout / timeout: the duration given to context.WithTimeout
    hasDeadline,         \* the context of the wait has a deadline
    cmdErr               \* the error the command returned

vars == <<pc, expr, details, result, ctx, ticker, tickerInterval, tickPending, ret,
          pollInterval, callback, acquisitions, sinkCalls, failedPolls, lastAcq,
          consecutiveFailures, currentInterval, okAcqs, errAcqs, sinkErrs,
          command, timeout, waitTimeout, hasDeadline, cmdErr>>

\* the state of the command around the wait
cliVars == <<command, timeout, waitTimeout, hasDeadline, cmdErr>>

\* the history counters of acquisition results and callback errors
histVars == <<okAcqs, errAcqs, sinkErrs>>

\* the variables of the polling loops, which the evaluator alone leaves as they are
loopVars == <<ctx, ticker, tickerInterval, tickPending, ret, pollInterval, callback,
              acquisitions, sinkCalls, failedPolls, lastAcq, consecutiveFailures,
              currentInterval, okAcqs, errAcqs, sinkErrs, command, timeout,
              waitTimeout, hasDeadline, cmdErr>>

\* ------------------------------------------------------------------------
\* Go string helpers (package strings)
\* ------------------------------------------------------------------------

SetMin(S) == CHOOSE x \in S : \A y \in S : x <= y

SetMax(S) == CHOOSE x \in S : \A y \in S : x >= y

RECURSIVE TrimLeft(_)
TrimLeft(s) == IF s # <<>> /\ Head(s) = " " THEN TrimLeft(Tail(s)) ELSE s

RECURSIVE TrimRight(_)
TrimRight(s) ==
    IF s # <<>> /\ s[Len(s)] = " " THEN TrimRight(SubSeq(s, 1, Len(s) - 1)) ELSE s

TrimSpace(s) == TrimRight(TrimLeft(s))

HasPrefix(s, p) == Len(s) >= Len(p) /\ SubSeq(s, 1, Len(p)) = p

HasSuffix(s, p) == Len(s) >= Len(p) /\ SubSeq(s, Len(s) - Len(p) + 1, Len(s)) = p

TrimPrefix(s, p) == IF HasPrefix(s, p) THEN SubSeq(s, Len(p) + 1, Len(s)) ELSE s

\* strings.Index, 1-based; 0 when sub does not occur
Index(s, sub) ==
    LET at == {i \in 1..(Len(s) - Len(sub) + 1) : SubSeq(s, i, i + Len(sub) - 1) = sub}
    IN  IF at = {} THEN 0 ELSE SetMin(at)

Contains(s, sub) == Index(s, sub) # 0

\* strings.Count for a one-character substring
Count(s, ch) == Cardinality({i \in 1..Len(s) : s[i] = ch})

\* strings.SplitN(s, sep, 2)
SplitN2(s, sep) ==
    LET i == Index(s, sep)
    IN  IF i = 0 THEN <<s>>
        ELSE <<SubSeq(s, 1, i - 1), SubSeq(s, i + Len(sep), Len(s))>>

RECURSIVE FieldsFrom(_, _, _)
FieldsFrom(s, cur, acc) ==
    IF s = <<>> THEN (IF cur # <<>> THEN Append(acc, cur) ELSE acc)
    ELSE IF Head(s) = " "
         THEN FieldsFrom(Tail(s), <<>>, IF cur # <<>> THEN Append(acc, cur) ELSE acc)
         ELSE FieldsFrom(Tail(s), Append(cur, Head(s)), acc)

\* strings.Fields: the maximal runs of non-space characters
Fields(s) == FieldsFrom(s, <<>>, <<>>)

UpperLetters == <<"A", "B", "C", "D", "E", "F", "G", "H", "I", "J", "K", "L", "M",
                  "N", "O", "P", "Q", "R", "S", "T", "U", "V", "W", "X", "Y", "Z">>

LowerLetters == <<"a", "b", "c", "d", "e", "f", "g", "h", "i", "j", "k", "l", "m",
                  "n", "o", "p", "q", "r", "s", "t", "u", "v", "w", "x", "y", "z">>

ToLower(c) ==
    IF \E i \in 1..Len(UpperLetters) : UpperLetters[i] = c
    THEN LowerLetters[CHOOSE i \in 1..Len(UpperLetters) : UpperLetters[i] = c]
    ELSE c

\* variant that distinguishes letter case
EqualExact(a, b) == a = b

\* strings.EqualFold on ASCII text
EqualFold(a, b) ==
    /\ Len(a) = Len(b)
    /\ \A i \in 1..Len(a) : ToLower(a[i]) = ToLower(b[i])

\* ------------------------------------------------------------------------
\* Timestamps.  A lastTransitionTime string is "" (absent), or a local hour
\* digit, "+", and a zone-offset digit (the RFC3339 shape reduced to what
\* decides the instant), or anything else (unparseable).  time.Parse maps
\* the string to an instant: hour minus offset.
\* ------------------------------------------------------------------------

Digits == <<"0", "1", "2", "3", "4", "5", "6", "7", "8", "9">>

IsDigit(c) == \E i \in 1..Len(Digits) : Digits[i] = c

DigitVal(c) == (CHOOSE i \in 1..Len(Digits) : Digits[i] = c) - 1

\* time.Parse(time.RFC3339, s): [err, t]
TimeParse(s) ==
    IF Len(s) = 3 /\ IsDigit(s[1]) /\ s[2] = "+" /\ IsDigit(s[3])
    THEN [err |-> FALSE, t |-> DigitVal(s[1]) - DigitVal(s[3])]
    ELSE [err |-> TRUE, t |-> 0]

\* ------------------------------------------------------------------------
\* The evaluator
\* ------------------------------------------------------------------------

statusTrue == "True"

AppliedStr == <<"A", "p", "p", "l", "i", "e", "d">>

opAND == <<"A", "N", "D">>

opOR == <<"O", "R">>

opAmp == <<"&", "&">>

opBar == <<"|", "|">>

\* variant without the freshness comparison
IsFreshNoGate(target, applied) == TRUE

\* the freshness comparison of checkDetailsCondition: FALSE when the target
\* condition transitioned before the Applied condition
IsFresh(target, applied) ==
    IF target.LastTransitionTime # <<>> /\ applied.LastTransitionTime # <<>>
    THEN LET targetTime  == TimeParse(target.LastTransitionTime)
             appliedTime == TimeParse(applied.LastTransitionTime)
         IN  IF ~targetTime.err /\ ~appliedTime.err
             THEN ~(targetTime.t < appliedTime.t)
             ELSE TRUE
    ELSE TRUE

\* variant whose scan stops at the first match
FirstTrueCond(conds, condType) ==
    LET at == {i \in 1..Len(conds) :
                  EqualFold(conds[i].Type, condType) /\ conds[i].Status = statusTrue}
    IN  IF at = {} THEN 0 ELSE SetMin(at)

\* the scan of checkDetailsCondition: the index of the last condition of the
\* given type with status True, 0 when there is none
LastTrueCond(conds, condType) ==
    LET at == {i \in 1..Len(conds) :
                  EqualFold(conds[i].Type, condType) /\ conds[i].Status = statusTrue}
    IN  IF at = {} THEN 0 ELSE SetMax(at)

checkDetailsCondition(d, condType) ==
    LET targetIdx  == LastTrueCond(d.Conditions, condType)
        appliedIdx == LastTrueCond(d.Conditions, AppliedStr)
    IN  IF targetIdx = 0 THEN FALSE
        ELSE IF EqualFold(condType, AppliedStr) \/ appliedIdx = 0 THEN TRUE
        ELSE IsFresh(d.Conditions[targetIdx], d.Conditions[appliedIdx])

\* ------------------------------------------------------------------------
\* Resource terms: "Kind:check", "Kind/name:check", "Kind/namespace/name:check"
\* ------------------------------------------------------------------------

RECURSIVE SplitFrom(_, _, _, _)
SplitFrom(s, sep, cur, acc) ==
    IF s = <<>> THEN Append(acc, cur)
    ELSE IF Head(s) = sep THEN SplitFrom(Tail(s), sep, <<>>, Append(acc, cur))
    ELSE SplitFrom(Tail(s), sep, Append(cur, Head(s)), acc)

\* strings.Split(s, sep) for a one-character separator
Split(s, sep) == SplitFrom(s, sep, <<>>, <<>>)

\* An interface{} value of a statusFeedback document: nil, a string, a bool
\* (num 1 or 0), an int64, a float64 (num in tenths), a map (entries with
\* keys) or a list (entries without keys).
Value(kind, num, str, entries) ==
    [kind |-> kind, num |-> num, str |-> str, entries |-> entries]

Nil == Value("nil", 0, <<>>, <<>>)

StringVal(s) == Value("string", 0, s, <<>>)

Int64Val(n) == Value("int64", n, <<>>, <<>>)

Entry(key, val) == [key |-> key, val |-> val]

MapVal(entries) == Value("map", 0, <<>>, entries)

ListVal(items) == Value("list", 0, <<>>, [i \in 1..Len(items) |-> Entry(<<>>, items[i])])

\* v[key] on a map[string]interface{}: nil when the key is missing
MapGet(v, key) ==
    LET at == {i \in 1..Len(v.entries) : v.entries[i].key = key}
    IN  IF at = {} THEN Nil ELSE v.entries[SetMin(at)].val

RECURSIVE walkPath(_, _, _)
walkPath(current, parts, i) ==
    IF i > Len(parts) THEN current
    ELSE IF current.kind = "map" THEN walkPath(MapGet(current, parts[i]), parts, i + 1)
    ELSE Nil

\* variant that looks up the last part of the path in the document itself
getValueFromPathLast(data, path) ==
    IF data.kind = "nil" THEN Nil
    ELSE MapGet(data, Split(path, ".")[Len(Split(path, "."))])

getValueFromPath(data, path) ==
    IF data.kind = "nil" THEN Nil ELSE walkPath(data, Split(path, "."), 1)

RECURSIVE DigitsValue(_, _)
DigitsValue(s, acc) ==
    IF s = <<>> THEN acc ELSE DigitsValue(Tail(s), 10 * acc + DigitVal(Head(s)))

\* strconv.ParseFloat(s, 64) on decimal numerals with an optional sign and at
\* most one fractional digit: [err, v] with v in tenths.  Any other text is
\* an error (exponents, hexadecimal and "inf"/"nan" are not among the inputs).
ParseFloat(s) ==
    LET AllDigits(t) == \A i \in 1..Len(t) : IsDigit(t[i])
        signed   == s # <<>> /\ Head(s) \in {"-", "+"}
        body     == IF signed THEN Tail(s) ELSE s
        sgn      == IF signed /\ Head(s) = "-" THEN -1 ELSE 1
        dot      == Index(body, <<".">>)
        whole    == IF dot = 0 THEN body ELSE SubSeq(body, 1, dot - 1)
        fraction == IF dot = 0 THEN <<>> ELSE SubSeq(body, dot + 1, Len(body))
    IN  IF /\ AllDigits(whole)
           /\ AllDigits(fraction)
           /\ Len(fraction) <= 1
           /\ Len(whole) + Len(fraction) >= 1
        THEN [err |-> FALSE,
              v   |-> sgn * (10 * DigitsValue(whole, 0) + DigitsValue(fraction, 0))]
        ELSE [err |-> TRUE, v |-> 0]

RECURSIVE FormatNat(_)
FormatNat(n) ==
    IF n < 10 THEN <<Digits[n + 1]>>
    ELSE FormatNat(n \div 10) \o <<Digits[(n % 10) + 1]>>

\* fmt.Sprintf("%v", v) == expected, except for a string (EqualFold) and for
\* a float64 against a numeral (numeric equality); maps and lists are never
\* printed, as no input compares one with "="
compareEqual(actual, expected) ==
    LET FormatInt(n) == IF n < 0 THEN <<"-">> \o FormatNat(-n) ELSE FormatNat(n)
        magnitude    == IF actual.num < 0 THEN -actual.num ELSE actual.num
        Sprint       ==
            IF actual.kind = "bool"
            THEN (IF actual.num = 1 THEN <<"t", "r", "u", "e">>
                  ELSE <<"f", "a", "l", "s", "e">>)
            ELSE IF actual.kind = "int64" THEN FormatInt(actual.num)
            ELSE (IF actual.num < 0 THEN <<"-">> ELSE <<>>)
                 \o FormatNat(magnitude \div 10)
                 \o (IF magnitude % 10 = 0 THEN <<>>
                     ELSE <<".">> \o FormatNat(magnitude % 10))
        expectedNum  == ParseFloat(expected)
    IN  IF actual.kind = "string" THEN EqualFold(actual.str, expected)
        ELSE IF actual.kind = "float64" /\ ~expectedNum.err
             THEN actual.num = expectedNum.v
        ELSE Sprint = expected

\* variant that compares the operands the other way round
compareNumericSwapped(actual, expected, operator) ==
    LET expectedNum == ParseFloat(expected)
    IN  /\ actual.kind = "int64"
        /\ ~expectedNum.err
        /\ IF operator = <<">", "=">> THEN expectedNum.v >= 10 * actual.num
           ELSE IF operator = <<"<", "=">> THEN expectedNum.v <= 10 * actual.num
           ELSE IF operator = <<">">> THEN expectedNum.v > 10 * actual.num
           ELSE expectedNum.v < 10 * actual.num

\* both sides as float64, in tenths
compareNumeric(actual, expected, operator) ==
    LET fromString  == ParseFloat(actual.str)
        numeric     == \/ actual.kind \in {"float64", "int64"}
                       \/ (actual.kind = "string" /\ ~fromString.err)
        actualNum   == IF actual.kind = "float64" THEN actual.num
                       ELSE IF actual.kind = "int64" THEN 10 * actual.num
                       ELSE fromString.v
        expectedNum == ParseFloat(expected)
    IN  IF ~numeric THEN FALSE
        ELSE IF expectedNum.err THEN FALSE
        ELSE IF operator = <<">", "=">> THEN actualNum >= expectedNum.v
        ELSE IF operator = <<"<", "=">> THEN actualNum <= expectedNum.v
        ELSE IF operator = <<">">> THEN actualNum > expectedNum.v
        ELSE IF operator = <<"<">> THEN actualNum < expectedNum.v
        ELSE FALSE

evaluateComparison(feedback, check, operator) ==
    LET parts         == SplitN2(check, operator)
        fieldPath     == TrimSpace(parts[1])
        expectedValue == TrimSpace(parts[2])
        actualValue   == getValueFromPath(feedback, fieldPath)
    IN  IF Len(parts) # 2 THEN FALSE
        ELSE IF actualValue.kind = "nil" THEN FALSE
        ELSE IF operator = <<"=">> THEN compareEqual(actualValue, expectedValue)
        ELSE compareNumeric(actualValue, expectedValue, operator)

\* the item-level Applied time of a resource term: the first Applied
\* condition with status True and a timestamp; [set, t], set FALSE when
\* there is none or it does not parse (manifestAppliedTime stays zero)
manifestAppliedTime(d) ==
    LET at == {i \in 1..Len(d.Conditions) :
                  /\ EqualFold(d.Conditions[i].Type, AppliedStr)
                  /\ d.Conditions[i].Status = "True"
                  /\ d.Conditions[i].LastTransitionTime # <<>>}
        parsed == TimeParse(d.Conditions[SetMin(at)].LastTransitionTime)
    IN  IF at = {} THEN [set |-> FALSE, t |-> 0]
        ELSE IF parsed.err THEN [set |-> FALSE, t |-> 0]
        ELSE [set |-> TRUE, t |-> parsed.t]

\* variant without the resource freshness comparison
resourceFreshAlways(rs, manifestTime) == TRUE

\* resourceFresh: decided by the resource's first Applied condition with
\* status True; TRUE when there is none, or it has no parseable timestamp
resourceFresh(rs, manifestTime) ==
    LET at == {i \in 1..Len(rs.Conditions) :
                  /\ EqualFold(rs.Conditions[i].Type, AppliedStr)
                  /\ rs.Conditions[i].Status = "True"}
        applied == rs.Conditions[SetMin(at)]
        parsed  == TimeParse(applied.LastTransitionTime)
    IN  IF at = {} THEN TRUE
        ELSE IF applied.LastTransitionTime # <<>> /\ ~parsed.err
             THEN ~(parsed.t < manifestTime)
        ELSE TRUE

\* a []interface{} of condition maps holds the type with status "True"
feedbackConditionsMatch(list, check) ==
    /\ list.kind = "list"
    /\ \E i \in 1..Len(list.entries) :
          LET fc == list.entries[i].val
              t  == MapGet(fc, <<"t", "y", "p", "e">>)
              st == MapGet(fc, <<"s", "t", "a", "t", "u", "s">>)
          IN  /\ fc.kind = "map"
              /\ t.kind = "string"
              /\ EqualFold(t.str, check)
              /\ st.kind = "string"
              /\ st.str = <<"T", "r", "u", "e">>

\* variant that looks at the resource's own conditions only
resourceConditionMatchesOwn(rs, check) ==
    \E i \in 1..Len(rs.Conditions) :
        EqualFold(rs.Conditions[i].Type, check) /\ rs.Conditions[i].Status = "True"

\* the bare condition-name check on one resource
resourceConditionMatches(rs, check) ==
    \/ \E i \in 1..Len(rs.Conditions) :
          EqualFold(rs.Conditions[i].Type, check) /\ rs.Conditions[i].Status = "True"
    \/ /\ rs.StatusFeedback.kind # "nil"
       /\ \/ feedbackConditionsMatch(
                 MapGet(rs.StatusFeedback,
                        <<"c", "o", "n", "d", "i", "t", "i", "o", "n", "s">>), check)
          \/ LET status == MapGet(rs.StatusFeedback, <<"s", "t", "a", "t", "u", "s">>)
             IN  /\ status.kind = "map"
                 /\ feedbackConditionsMatch(
                        MapGet(status,
                               <<"c", "o", "n", "d", "i", "t", "i", "o", "n", "s">>), check)

\* the loop over details.ResourceStatus from index i on
RECURSIVE scanResources(_, _, _, _, _, _, _)
scanResources(rss, i, kind, name, namespace, check, applied) ==
    IF i > Len(rss) THEN FALSE
    ELSE LET rs == rss[i]
         IN  IF ~EqualFold(rs.Kind, kind)
             THEN scanResources(rss, i + 1, kind, name, namespace, check, applied)
             ELSE IF name # <<>> /\ ~EqualFold(rs.Name, name)
             THEN scanResources(rss, i + 1, kind, name, namespace, check, applied)
             ELSE IF namespace # <<>> /\ ~EqualFold(rs.Namespace, namespace)
             THEN scanResources(rss, i + 1, kind, name, namespace, check, applied)
             ELSE IF applied.set /\ ~resourceFresh(rs, applied.t)
             THEN scanResources(rss, i + 1, kind, name, namespace, check, applied)
             ELSE IF Contains(check, <<">", "=">>)
             THEN evaluateComparison(rs.StatusFeedback, check, <<">", "=">>)
             ELSE IF Contains(check, <<"<", "=">>)
             THEN evaluateComparison(rs.StatusFeedback, check, <<"<", "=">>)
             ELSE IF Contains(check, <<">">>)
             THEN evaluateComparison(rs.StatusFeedback, check, <<">">>)
             ELSE IF Contains(check, <<"<">>)
             THEN evaluateComparison(rs.StatusFeedback, check, <<"<">>)
             ELSE IF Contains(check, <<"=">>)
             THEN evaluateComparison(rs.StatusFeedback, check, <<"=">>)
             ELSE IF resourceConditionMatches(rs, check) THEN TRUE
             ELSE scanResources(rss, i + 1, kind, name, namespace, check, applied)

evaluateStatusFeedbackCondition(d, condition) ==
    LET parts            == SplitN2(condition, <<":">>)
        resourceSelector == TrimSpace(parts[1])
        check            == TrimSpace(parts[2])
        selectorParts    == Split(resourceSelector, "/")
        kind             == selectorParts[1]
        name             == IF Len(selectorParts) = 2 THEN selectorParts[2]
                            ELSE IF Len(selectorParts) >= 3 THEN selectorParts[3]
                            ELSE <<>>
        namespace        == IF Len(selectorParts) >= 3 THEN selectorParts[2] ELSE <<>>
    IN  IF Len(parts) # 2 THEN FALSE
        ELSE scanResources(d.ResourceStatus, 1, kind, name, namespace, check,
                           manifestAppliedTime(d))

evaluateSingleCondition(d, c) ==
    LET condition == TrimSpace(c)
    IN  IF condition = <<>> THEN FALSE
        ELSE IF Contains(condition, <<":">>)
             THEN evaluateStatusFeedbackCondition(d, condition)
             ELSE checkDetailsCondition(d, condition)

\* variant that does not track the depth
WordDepthFlat(depth, word) == depth

\* the paren-depth update of splitByOperator for one word
WordDepth(depth, word) ==
    IF HasPrefix(word, <<"(">>) \/ HasSuffix(word, <<")">>)
    THEN depth + Count(word, "(") - Count(word, ")")
    ELSE depth

RECURSIVE splitWords(_, _, _, _, _, _, _)
splitWords(words, i, parts, current, depth, op1, op2) ==
    IF i > Len(words)
    THEN (IF current # <<>> THEN Append(parts, current) ELSE parts)
    ELSE LET word == words[i]
             d    == WordDepth(depth, word)
         IN  IF d = 0 /\ (word = op1 \/ word = op2)
             THEN splitWords(words, i + 1,
                             IF current # <<>> THEN Append(parts, current) ELSE parts,
                             <<>>, d, op1, op2)
             ELSE LET cur == (IF current # <<>> THEN current \o <<" ">> ELSE current)
                                 \o word
                      sub == SplitN2(cur, op2)
                  IN  IF /\ d = 0
                         /\ i < Len(words)
                         /\ Contains(word, op2)
                         /\ op2 # <<>>
                         /\ Len(sub) = 2
                      THEN splitWords(words, i + 1, Append(parts, sub[1]), sub[2],
                                      d, op1, op2)
                      ELSE splitWords(words, i + 1, parts, cur, d, op1, op2)

\* variant that never splits
splitByOperatorWhole(e, op1, op2) == <<e>>

splitByOperator(e, op1, op2) == splitWords(Fields(e), 1, <<>>, <<>>, 0, op1, op2)

\* the index of the ")" that closes the "(" at position 1, 0 when there is none
RECURSIVE MatchClose(_, _, _)
MatchClose(e, i, depth) ==
    IF i > Len(e) THEN 0
    ELSE IF e[i] = "(" THEN MatchClose(e, i + 1, depth + 1)
    ELSE IF e[i] = ")"
         THEN (IF depth - 1 = 0 THEN i ELSE MatchClose(e, i + 1, depth - 1))
    ELSE MatchClose(e, i + 1, depth)

RECURSIVE evaluateConditionExpression(_, _)
evaluateConditionExpression(d, ex) ==
    LET e        == TrimSpace(ex)
        close    == IF HasPrefix(e, <<"(">>) THEN MatchClose(e, 1, 0) ELSE 0
        inner    == SubSeq(e, 2, close - 1)
        rest     == TrimSpace(SubSeq(e, close + 1, Len(e)))
        andParts == splitByOperator(e, opAND, opAmp)
        orParts  == splitByOperator(e, opOR, opBar)
    IN  IF e = <<>> THEN FALSE
        ELSE IF close # 0 /\ rest = <<>>
             THEN evaluateConditionExpression(d, inner)
        ELSE IF close # 0 /\ (HasPrefix(rest, opAND) \/ HasPrefix(rest, opAmp))
             THEN /\ evaluateConditionExpression(d, inner)
                  /\ evaluateConditionExpression(d,
                         TrimSpace(IF HasPrefix(rest, opAmp)
                                   THEN TrimPrefix(rest, opAmp)
                                   ELSE TrimPrefix(rest, opAND)))
        ELSE IF close # 0 /\ (HasPrefix(rest, opOR) \/ HasPrefix(rest, opBar))
             THEN \/ evaluateConditionExpression(d, inner)
                  \/ evaluateConditionExpression(d,
                         TrimSpace(IF HasPrefix(rest, opBar)
                                   THEN TrimPrefix(rest, opBar)
                                   ELSE TrimPrefix(rest, opOR)))
        ELSE IF Len(andParts) > 1
             THEN \A k \in 1..Len(andParts) :
                      evaluateConditionExpression(d, TrimSpace(andParts[k]))
        ELSE IF Len(orParts) > 1
             THEN \E k \in 1..Len(orParts) :
                      evaluateConditionExpression(d, TrimSpace(orParts[k]))
        ELSE evaluateSingleCondition(d, e)

\* ------------------------------------------------------------------------
\* time.Duration and int: 64-bit two's-complement integers, kept as eight
\* 8-bit limbs, least significant first, so that shifts and products wrap
\* at 2^64 as they do in the compiled program (GOARCH amd64 / arm64).
\* ------------------------------------------------------------------------

LimbBase == 2 ^ 8

Limbs == 1..8

Zero64 == [i \in Limbs |-> 0]

One64 == [i \in Limbs |-> IF i = 1 THEN 1 ELSE 0]

\* the limbs of a sequence of column sums, carries propagated, mod 2^64
Normalize64(cols) ==
    LET carry[k \in 0..8] == IF k = 0 THEN 0 ELSE (cols[k] + carry[k - 1]) \div LimbBase
    IN  [k \in Limbs |-> (cols[k] + carry[k - 1]) % LimbBase]

\* x + y mod 2^64
Add64(x, y) == Normalize64([k \in Limbs |-> x[k] + y[k]])

\* x * y mod 2^64
Mul64(x, y) ==
    LET col[k \in Limbs] ==
            LET sum[i \in 0..k] == IF i = 0 THEN 0 ELSE sum[i - 1] + x[i] * y[k + 1 - i]
            IN  sum[k]
    IN  Normalize64(col)

\* 1 << k for a shift count k >= 0: bit k, and 0 for a count of 64 or more
Shl1(k) ==
    [i \in Limbs |-> IF k < 64 /\ i = (k \div 8) + 1 THEN 2 ^ (k % 8) ELSE 0]

Negative64(x) == x[8] >= LimbBase \div 2

\* unsigned order of the bit patterns
ULess64(x, y) ==
    LET diff == {i \in Limbs : x[i] # y[i]}
    IN  diff # {} /\ x[SetMax(diff)] < y[SetMax(diff)]

\* signed x < y
Less64(x, y) ==
    IF Negative64(x) # Negative64(y) THEN Negative64(x) ELSE ULess64(x, y)

\* a small non-negative int as a 64-bit value
Int64(n) ==
    [i \in Limbs |-> IF i = 1 THEN n % LimbBase
                     ELSE IF i = 2 THEN (n \div LimbBase) % LimbBase
                     ELSE 0]

\* time.Nanosecond .. time.Minute
Nanosecond == One64

Second == Mul64(Mul64(Mul64(Nanosecond, Int64(1000)), Int64(1000)), Int64(1000))

Minute == Mul64(Second, Int64(60))

DefaultPollInterval == Mul64(Int64(1), Second)

\* maxInterval := 5 * time.Minute
maxInterval == Mul64(Int64(5), Minute)

\* updateBackoffInterval: the new value of *currentInterval, and whether
\* ticker.Reset is called with it
updateBackoffInterval(cur, failures, baseInterval) ==
    IF failures <= 0
    THEN [interval |-> cur, reset |-> FALSE]
    ELSE LET multiplier  == Shl1(failures - 1)
             product     == Mul64(baseInterval, multiplier)
             newInterval == IF Less64(maxInterval, product) THEN maxInterval ELSE product
         IN  IF newInterval # cur
             THEN [interval |-> newInterval, reset |-> TRUE]
             ELSE [interval |-> cur, reset |-> FALSE]

\* time.Ticker.Reset and time.NewTicker panic on a non-positive interval
TickerPanics(d) == d = Zero64 \/ Negative64(d)

\* ------------------------------------------------------------------------
\* Inputs of the evaluator
\* ------------------------------------------------------------------------

MaxWords == 5

MaxConds == 3

nameA == <<"A">>

nameB == <<"B">>

nameC == <<"C">>

Names == {nameA, nameB, nameC}

Operators == {opAND, opOR}

RECURSIVE Join(_)
Join(ws) ==
    IF ws = <<>> THEN <<>>
    ELSE IF Len(ws) = 1 THEN ws[1]
    ELSE ws[1] \o <<" ">> \o Join(Tail(ws))

\* every sequence of 1..MaxWords words, each a condition name or AND / OR,
\* written with single spaces: well-formed chains and malformed ones alike
WordExprs ==
    {Join(ws) : ws \in UNION {[1..n -> Names \cup Operators] : n \in 1..MaxWords}}

\* expressions with parentheses and blanks: "", " ", "()", "(A", "A)",
\* "(A))", "(A AND B", "A AND (B", "(A) B", "( )", "(A AND B) AND"
ParenExprs ==
    { <<>>,
      <<" ">>,
      <<"(", ")">>,
      <<"(", "A">>,
      <<"A", ")">>,
      <<"(", "A", ")", ")">>,
      <<"(", "A", " ", "A", "N", "D", " ", "B">>,
      <<"A", " ", "A", "N", "D", " ", "(", "B">>,
      <<"(", "A", ")", " ", "B">>,
      <<"(", " ", ")">>,
      <<"(", "A", " ", "A", "N", "D", " ", "B", ")", " ", "A", "N", "D">> }

Cond(type, status, time) ==
    [Type |-> type, Status |-> status, LastTransitionTime |-> time]

Details(conds) == [Conditions |-> conds, ResourceStatus |-> <<>>]

\* snapshots that give A, B and C each a status, without timestamps or Applied
TruthSnaps ==
    {Details(<<Cond(nameA, f[1], <<>>), Cond(nameB, f[2], <<>>), Cond(nameC, f[3], <<>>)>>)
        : f \in [1..3 -> {"True", "False"}]}

\* instant 1, instant 2 (written so that the order of the strings is the
\* reverse of the order of the instants), an unparseable and an absent time
T1 == <<"3", "+", "2">>

T2 == <<"2", "+", "0">>

TBad == <<"x">>

TNone == <<>>

TimeStrs == {T1, T2, TBad, TNone}

\* conditions with status True at any of the times, or False
ConditionSummary ==
    [Type : {nameA, AppliedStr}, Status : {"True"}, LastTransitionTime : TimeStrs]
        \cup [Type : {nameA, AppliedStr}, Status : {"False"}, LastTransitionTime : {T2, TNone}]

\* every conditions list of at most MaxConds entries over A and Applied
FreshSnaps ==
    {Details(cs) : cs \in UNION {[1..n -> ConditionSummary] : n \in 0..MaxConds}}

\* ------------------------------------------------------------------------
\* Evaluate as one step: evaluateConditionExpression applied to the drawn
\* (snapshot, expression)
\* ------------------------------------------------------------------------

\* a nil error, and an error with its message
NoError == [nil |-> TRUE, msg |-> <<>>]

Error(msg) == [nil |-> FALSE, msg |-> msg]

\* a direct call of the library function, under a context with a deadline
NoCommand ==
    /\ command = "none"
    /\ timeout = Zero64
    /\ waitTimeout = Zero64
    /\ hasDeadline = TRUE
    /\ cmdErr = NoError

\* no loop is running while the evaluator is exercised on its own
LoopIdle ==
    /\ NoCommand
    /\ ctx = "live"
    /\ ticker = "none"
    /\ tickerInterval = Zero64
    /\ tickPending = FALSE
    /\ ret = "none"
    /\ pollInterval = DefaultPollInterval
    /\ callback = FALSE
    /\ acquisitions = 0
    /\ sinkCalls = 0
    /\ failedPolls = 0
    /\ lastAcq = "none"
    /\ consecutiveFailures = 0
    /\ currentInterval = Zero64
    /\ okAcqs = 0
    /\ errAcqs = 0
    /\ sinkErrs = 0

\* Expressions with well-formed groups, as trees: a condition name, two
\* operands joined by AND or OR, or a parenthesised tree
Leaf(n) == <<"leaf", n>>

Node(op, l, r) == <<"node", op, l, r>>

Group(t) == <<"group", t>>

\* the text of a tree: an operand that is itself an operation is written in
\* parentheses
RECURSIVE Render(_)
Render(t) ==
    IF t[1] = "leaf" THEN t[2]
    ELSE IF t[1] = "group" THEN <<"(">> \o Render(t[2]) \o <<")">>
    ELSE LET side(c) == IF c[1] = "node" THEN <<"(">> \o Render(c) \o <<")">>
                        ELSE Render(c)
         IN  side(t[3]) \o <<" ">> \o t[2] \o <<" ">> \o side(t[4])

\* "x op (y op z)" and "(x op y) op z" for all names and operators; the
\* five shapes with a group on either side or a group inside a group, over
\* A, B, C and a fourth name; and the two with doubled parentheses
GroupedTrees ==
    {Node(o1, Leaf(x), Node(o2, Leaf(y), Leaf(z))) :
        x \in Names, y \in Names, z \in Names, o1 \in Operators, o2 \in Operators}
    \cup {Node(o2, Node(o1, Leaf(x), Leaf(y)), Leaf(z)) :
        x \in Names, y \in Names, z \in Names, o1 \in Operators, o2 \in Operators}
    \cup UNION {
        { Node(o1, Leaf(nameA), Node(o2, Leaf(nameB), Node(o3, Leaf(nameC), Leaf(w)))),
          Node(o1, Leaf(nameA), Node(o3, Node(o2, Leaf(nameB), Leaf(nameC)), Leaf(w))),
          Node(o2, Node(o1, Leaf(nameA), Leaf(nameB)), Node(o3, Leaf(nameC), Leaf(w))),
          Node(o3, Node(o1, Leaf(nameA), Node(o2, Leaf(nameB), Leaf(nameC))), Leaf(w)),
          Node(o3, Node(o2, Node(o1, Leaf(nameA), Leaf(nameB)), Leaf(nameC)), Leaf(w)) } :
        w \in Names, o1 \in Operators, o2 \in Operators, o3 \in Operators}
    \cup {Node(o1, Leaf(nameA), Group(Node(o2, Leaf(nameB), Leaf(nameC)))) :
        o1 \in Operators, o2 \in Operators}
    \cup {Node(o2, Group(Node(o1, Leaf(nameA), Leaf(nameB))), Leaf(nameC)) :
        o1 \in Operators, o2 \in Operators}

GroupedExprs == {Render(t) : t \in GroupedTrees}

\* the expression is a word sequence, one of the malformed texts, a grouped
\* tree, "(x OR y) AND z OR w", "x&&y", "x||y", "x&&y AND z" or "x||y OR z"
InitExpr ==
    /\ pc = "eval"
    /\ expr \in WordExprs \cup ParenExprs \cup GroupedExprs
                 \cup {<<"(">> \o Join(<<x, opOR, y>>) \o <<")", " ">>
                           \o Join(<<opAND, z, opOR, w>>) :
                           x \in Names, y \in Names, z \in Names, w \in Names}
                 \cup {x \o op \o y : x \in Names, y \in Names, op \in {opAmp, opBar}}
                 \cup {Join(<<x \o opAmp \o y, opAND, z>>) :
                           x \in Names, y \in Names, z \in Names}
                 \cup {Join(<<x \o opBar \o y, opOR, z>>) :
                           x \in Names, y \in Names, z \in Names}
    /\ details \in TruthSnaps
    /\ result = FALSE
    /\ LoopIdle

\* every conditions list of at most MaxConds conditions of type A or B, in
\* each status a condition can be reported with, and "true" in lower case,
\* without timestamps: no Applied condition
StatusSnaps ==
    LET conditions == [Type : {nameA, nameB},
                       Status : {"True", "False", "Unknown", "true"},
                       LastTransitionTime : {TNone}]
    IN  {Details(cs) : cs \in UNION {[1..n -> conditions] : n \in 0..MaxConds}}

InitCond ==
    /\ pc = "eval"
    /\ expr \in {nameA, <<"a">>, AppliedStr}
    /\ details \in FreshSnaps \cup StatusSnaps
    /\ result = FALSE
    /\ LoopIdle

Evaluate ==
    /\ pc = "eval"
    /\ result' = evaluateConditionExpression(details, expr)
    /\ pc' = "done"
    /\ UNCHANGED <<expr, details>>
    /\ UNCHANGED loopVars

NextEval == Evaluate

SpecExpr == InitExpr /\ [][NextEval]_vars

\* ------------------------------------------------------------------------
\* Inputs of resource terms
\* ------------------------------------------------------------------------

MaxInt == 3

kindJob == <<"J", "o", "b">>

nameX == <<"x">>

nameY == <<"y">>

fieldSucceeded == <<"s", "u", "c", "c", "e", "e", "d", "e", "d">>

condComplete == <<"C", "o", "m", "p", "l", "e", "t", "e">>

ResourceStatusInfo(kind, name, namespace, conds, feedback) ==
    [Kind |-> kind, Name |-> name, Namespace |-> namespace, Conditions |-> conds,
     StatusFeedback |-> feedback]

DetailsWith(conds, rss) == [Conditions |-> conds, ResourceStatus |-> rss]

\* the empty list, every one-element list and every two-element list over R
UpToTwo(R) == {<<>>} \cup {<<r>> : r \in R} \cup {<<r1, r2>> : r1 \in R, r2 \in R}

\* "Job/x:succeeded<op>n" and "Job:succeeded<op>n" for n in 0..MaxInt
ComparisonExprs ==
    {sel \o <<":">> \o fieldSucceeded \o op \o FormatNat(n) :
        sel \in {kindJob \o <<"/">> \o nameX, kindJob},
        op \in {<<">", "=">>, <<"<", "=">>, <<">">>, <<"<">>},
        n \in 0..MaxInt}

\* Jobs x and y, with or without an Applied condition at instant 1, without
\* feedback or with the integer field succeeded; and the item with or
\* without an Applied condition at instant 2
ComparisonSnaps ==
    LET feedback  == {Nil} \cup {MapVal(<<Entry(fieldSucceeded, Int64Val(v))>>) :
                                    v \in 0..MaxInt}
        resources == {ResourceStatusInfo(kindJob, n, <<>>, cs, fb) :
                         n \in {nameX, nameY},
                         cs \in {<<>>, <<Cond(AppliedStr, "True", T1)>>},
                         fb \in feedback}
    IN  {DetailsWith(cs, rss) :
            cs \in {<<>>, <<Cond(AppliedStr, "True", T2)>>},
            rss \in UpToTwo(resources)}

\* "Job:Complete", "job/X:complete", "Job/x:Complete"
ConditionExprs ==
    { kindJob \o <<":">> \o condComplete,
      <<"j", "o", "b", "/", "X", ":", "c", "o", "m", "p", "l", "e", "t", "e">>,
      kindJob \o <<"/">> \o nameX \o <<":">> \o condComplete }

\* Snapshots for condition names.  A resource reports Complete, with an
\* Applied condition before it that is fresh, stale, False, without a
\* timestamp or duplicated; its feedback is absent or holds a conditions
\* array, directly or under status.  The item has no Applied condition, or
\* one at instant 2 or 1, unparseable, False, or two of them.
ConditionSnaps ==
    LET complete   == Cond(condComplete, "True", TNone)
        conditions ==
            { <<>>,
              <<complete>>,
              <<Cond(condComplete, "False", TNone)>>,
              <<Cond(AppliedStr, "True", T1), complete>>,
              <<Cond(AppliedStr, "True", T2), complete>>,
              <<Cond(AppliedStr, "True", TNone), complete>>,
              <<Cond(AppliedStr, "True", TBad), complete>>,
              <<Cond(AppliedStr, "False", T1), complete>>,
              <<Cond(AppliedStr, "True", T2), Cond(AppliedStr, "True", T1), complete>> }
        keyConditions == <<"c", "o", "n", "d", "i", "t", "i", "o", "n", "s">>
        keyStatus     == <<"s", "t", "a", "t", "u", "s">>
        list(status)  ==
            ListVal(<<MapVal(<<Entry(<<"t", "y", "p", "e">>, StringVal(condComplete)),
                               Entry(keyStatus, StringVal(status))>>)>>)
        feedback   ==
            { Nil,
              MapVal(<<Entry(keyConditions, list(<<"T", "r", "u", "e">>))>>),
              MapVal(<<Entry(keyStatus,
                             MapVal(<<Entry(keyConditions,
                                            list(<<"T", "r", "u", "e">>))>>))>>),
              MapVal(<<Entry(keyConditions, list(<<"F", "a", "l", "s", "e">>))>>) }
        resources  == {ResourceStatusInfo(kindJob, nameX, <<>>, cs, fb) :
                          cs \in conditions, fb \in feedback}
        item       ==
            { <<>>,
              <<Cond(AppliedStr, "True", T2)>>,
              <<Cond(AppliedStr, "True", T1)>>,
              <<Cond(AppliedStr, "True", TBad)>>,
              <<Cond(AppliedStr, "False", T2)>>,
              <<Cond(AppliedStr, "True", TNone), Cond(AppliedStr, "True", T2)>>,
              <<Cond(AppliedStr, "True", T1), Cond(AppliedStr, "True", T2)>> }
    IN  {DetailsWith(cs, rss) : cs \in item, rss \in UpToTwo(resources)}

\* "Job/x:<path><op>1" for the paths succeeded, status.succeeded,
\* succeeded.status, x and status.x and the five operators
PathExprs ==
    LET keyStatus == <<"s", "t", "a", "t", "u", "s">>
        paths     == { fieldSucceeded,
                       keyStatus \o <<".">> \o fieldSucceeded,
                       fieldSucceeded \o <<".">> \o keyStatus,
                       nameX,
                       keyStatus \o <<".">> \o nameX }
    IN  {kindJob \o <<"/">> \o nameX \o <<":">> \o path \o op \o <<"1">> :
            path \in paths,
            op \in {<<">", "=">>, <<"<", "=">>, <<">">>, <<"<">>, <<"=">>}}

\* Jobs named x without conditions, whose feedback is absent, holds
\* succeeded = 1 directly or under status, or holds the string "1" as status
PathSnaps ==
    LET keyStatus == <<"s", "t", "a", "t", "u", "s">>
        feedback  == { Nil,
                       MapVal(<<Entry(fieldSucceeded, Int64Val(1))>>),
                       MapVal(<<Entry(keyStatus,
                                      MapVal(<<Entry(fieldSucceeded, Int64Val(1))>>))>>),
                       MapVal(<<Entry(keyStatus, StringVal(<<"1">>))>>) }
        resources == {ResourceStatusInfo(kindJob, nameX, <<>>, <<>>, fb) : fb \in feedback}
    IN  {DetailsWith(<<>>, rss) : rss \in UpToTwo(resources)}

InitRes ==
    /\ pc = "eval"
    /\ \/ (expr \in ComparisonExprs /\ details \in ComparisonSnaps)
       \/ (expr \in ConditionExprs /\ details \in ConditionSnaps)
       \/ (expr \in PathExprs /\ details \in PathSnaps)
    /\ result = FALSE
    /\ LoopIdle

SpecRes == InitRes /\ [][NextEval]_vars

SpecCond == InitCond /\ [][NextEval]_vars

\* ------------------------------------------------------------------------
\* The environment of a polling loop: the ticker's clock and the context
\* ------------------------------------------------------------------------

Running ==
    pc \notin {"eval", "done", "w_done", "d_done", "r_done", "r_panic", "c_start", "c_done"}

\* the ticker's period elapses: a tick is put in ticker.C (capacity 1; a
\* tick that finds the channel full is dropped)
TickFire ==
    /\ Running
    /\ ticker = "running"
    /\ ~tickPending
    /\ tickPending' = TRUE
    /\ UNCHANGED <<cliVars, histVars, pc, expr, details, result, ctx, ticker, tickerInterval, ret,
                   pollInterval, callback, acquisitions, sinkCalls, failedPolls, lastAcq,
                   consecutiveFailures, currentInterval>>

\* the caller cancels
CtxCancel ==
    /\ Running
    /\ ctx = "live"
    /\ ctx' = "canceled"
    /\ UNCHANGED <<cliVars, histVars, pc, expr, details, result, ticker, tickerInterval,
                   tickPending, ret, pollInterval, callback, acquisitions, sinkCalls, failedPolls,
                   lastAcq, consecutiveFailures, currentInterval>>

\* the deadline of context.WithTimeout passes
CtxDeadline ==
    /\ Running
    /\ hasDeadline
    /\ ctx = "live"
    /\ ctx' = "deadline"
    /\ UNCHANGED <<cliVars, histVars, pc, expr, details, result, ticker, tickerInterval,
                   tickPending, ret, pollInterval, callback, acquisitions, sinkCalls, failedPolls,
                   lastAcq, consecutiveFailures, currentInterval>>

\* ------------------------------------------------------------------------
\* WaitForCondition
\* ------------------------------------------------------------------------

MaxPolls == 3

WaitConds == 3

NoDetails == Details(<<>>)

\* conditions of a snapshot: A or Applied, True since either time (a snapshot
\* without a True A is one where A is absent)
WaitConditionSummary ==
    [Type : {nameA, AppliedStr}, Status : {"True"}, LastTransitionTime : {T1, T2}]

\* the snapshots an acquisition of the wait may return
WaitSnaps ==
    {Details(cs) : cs \in UNION {[1..n -> WaitConditionSummary] : n \in 0..WaitConds}}

\* if pollInterval == 0 { pollInterval = DefaultPollInterval }
EffectivePollInterval(arg) == IF arg = Zero64 THEN DefaultPollInterval ELSE arg

InitWait ==
    /\ NoCommand
    /\ pc = "w_start"
    /\ expr = nameA
    /\ details = NoDetails
    /\ result = FALSE
    /\ ctx \in {"live", "canceled"}
    /\ ticker = "none"
    /\ tickerInterval = Zero64
    /\ tickPending = FALSE
    /\ ret = "none"
    /\ pollInterval \in {EffectivePollInterval(arg) : arg \in {Zero64, Mul64(Int64(2), Second)}}
    /\ callback \in BOOLEAN
    /\ acquisitions = 0
    /\ sinkCalls = 0
    /\ failedPolls = 0
    /\ lastAcq = "none"
    /\ consecutiveFailures = 0
    /\ currentInterval = Zero64
    /\ okAcqs = 0
    /\ errAcqs = 0
    /\ sinkErrs = 0

\* variant that looks at the context before the first acquisition
WfcInitGetChecksCtx ==
    /\ pc = "w_start"
    /\ IF ctx # "live"
       THEN /\ ret' = ctx
            /\ pc' = "w_done"
            /\ UNCHANGED acquisitions
       ELSE /\ pc' = "w_initGet"
            /\ acquisitions' = acquisitions + 1
            /\ UNCHANGED ret
    /\ UNCHANGED <<cliVars, histVars, expr, details, result, ctx, ticker, tickerInterval,
                   tickPending, pollInterval, callback, sinkCalls, failedPolls, lastAcq,
                   consecutiveFailures, currentInterval>>

\* the first GetManifestWorkDetailsHTTP call is issued
WfcInitGet ==
    /\ pc = "w_start"
    /\ pc' = "w_initGet"
    /\ acquisitions' = acquisitions + 1
    /\ UNCHANGED <<cliVars, histVars, expr, details, result, ctx, ticker, tickerInterval,
                   tickPending, ret, pollInterval, callback, sinkCalls, failedPolls,
                   lastAcq, consecutiveFailures, currentInterval>>

\* ... and returns a snapshot
WfcInitOk ==
    /\ pc = "w_initGet"
    /\ \E s \in WaitSnaps : details' = s
    /\ lastAcq' = "ok"
    /\ okAcqs' = okAcqs + 1
    /\ pc' = "w_initEval"
    /\ UNCHANGED <<cliVars, errAcqs, sinkErrs, expr, result, ctx, ticker, tickerInterval,
                   tickPending, ret, pollInterval, callback, acquisitions, sinkCalls,
                   failedPolls, consecutiveFailures, currentInterval>>

\* ... or fails: return fmt.Errorf("failed to get ManifestWork: %w", err)
WfcInitFail ==
    /\ pc = "w_initGet"
    /\ \E kind \in {"transient", "notfound"} : lastAcq' = kind
    /\ errAcqs' = errAcqs + 1
    /\ ret' = "getError"
    /\ pc' = "w_done"
    /\ UNCHANGED <<cliVars, okAcqs, sinkErrs, expr, details, result, ctx, ticker, tickerInterval,
                   tickPending, pollInterval, callback, acquisitions, sinkCalls,
                   failedPolls, consecutiveFailures, currentInterval>>

\* variant that creates the ticker and enters the loop whatever the first
\* snapshot evaluates to
WfcInitCheckNoReturn ==
    /\ pc = "w_initEval"
    /\ result' = evaluateConditionExpression(details, expr)
    /\ sinkCalls' = IF callback THEN sinkCalls + 1 ELSE sinkCalls
    /\ \E failed \in {callback, FALSE} :
           sinkErrs' = IF failed THEN sinkErrs + 1 ELSE sinkErrs
    /\ pc' = "w_select"
    /\ ticker' = "running"
    /\ tickerInterval' = pollInterval
    /\ UNCHANGED <<cliVars, okAcqs, errAcqs, expr, details, ret, ctx, tickPending, pollInterval,
                   callback, acquisitions, failedPolls, lastAcq, consecutiveFailures,
                   currentInterval>>

\* variant that does not report the first snapshot to the callback
WfcInitCheckSilent ==
    LET conditionMet == evaluateConditionExpression(details, expr)
    IN  /\ pc = "w_initEval"
        /\ result' = conditionMet
        /\ IF conditionMet
           THEN /\ pc' = "w_done"
                /\ ret' = "nil"
                /\ UNCHANGED <<details, ticker, tickerInterval>>
           ELSE /\ pc' = "w_select"
                /\ ticker' = "running"
                /\ tickerInterval' = pollInterval
                /\ UNCHANGED <<details, ret>>
        /\ UNCHANGED <<cliVars, histVars, sinkCalls, expr, ctx, tickPending, pollInterval,
                       callback, acquisitions, failedPolls, lastAcq,
                       consecutiveFailures, currentInterval>>

\* evaluate the first snapshot, report it to the callback, and either return
\* nil or create the ticker and enter the loop
WfcInitCheck ==
    LET conditionMet == evaluateConditionExpression(details, expr)
    IN  /\ pc = "w_initEval"
        /\ result' = conditionMet
        /\ sinkCalls' = IF callback THEN sinkCalls + 1 ELSE sinkCalls
        /\ \E failed \in {callback, FALSE} :
               sinkErrs' = IF failed THEN sinkErrs + 1 ELSE sinkErrs
        /\ IF conditionMet
           THEN /\ pc' = "w_done"
                /\ ret' = "nil"
                /\ UNCHANGED <<details, ticker, tickerInterval>>
           ELSE /\ pc' = "w_select"
                /\ ticker' = "running"
                /\ tickerInterval' = pollInterval
                /\ UNCHANGED <<details, ret>>
        /\ UNCHANGED <<cliVars, okAcqs, errAcqs, expr, ctx, tickPending, pollInterval, callback,
                       acquisitions, failedPolls, lastAcq, consecutiveFailures,
                       currentInterval>>

\* variant that returns nil when the context is done
WfcCtxDoneNil ==
    /\ pc = "w_select"
    /\ ctx # "live"
    /\ ret' = "nil"
    /\ ticker' = "stopped"
    /\ pc' = "w_done"
    /\ UNCHANGED <<cliVars, histVars, expr, details, result, ctx, tickerInterval, tickPending,
                   pollInterval, callback, acquisitions, sinkCalls, failedPolls, lastAcq,
                   consecutiveFailures, currentInterval>>

\* variant that never takes the ctx.Done() case
WfcCtxDoneIgnored ==
    /\ pc = "w_select"
    /\ ctx # "live"
    /\ UNCHANGED vars

\* variant that returns without stopping the ticker
WfcCtxDoneLeaks ==
    /\ pc = "w_select"
    /\ ctx # "live"
    /\ ret' = ctx
    /\ pc' = "w_done"
    /\ UNCHANGED <<cliVars, histVars, expr, details, result, ctx, ticker, tickerInterval,
                   tickPending, pollInterval, callback, acquisitions, sinkCalls,
                   failedPolls, lastAcq, consecutiveFailures, currentInterval>>

\* select: case <-ctx.Done(): return ctx.Err() (the deferred ticker.Stop runs)
WfcCtxDone ==
    /\ pc = "w_select"
    /\ ctx # "live"
    /\ ret' = ctx
    /\ ticker' = "stopped"
    /\ pc' = "w_done"
    /\ UNCHANGED <<cliVars, histVars, expr, details, result, ctx, tickerInterval, tickPending,
                   pollInterval, callback, acquisitions, sinkCalls, failedPolls, lastAcq,
                   consecutiveFailures, currentInterval>>

\* variant that issues the next call on a tick although one is under way
WfcTickOverlapping ==
    /\ pc \in {"w_select", "w_pollGet"}
    /\ tickPending
    /\ acquisitions < MaxPolls
    /\ tickPending' = FALSE
    /\ acquisitions' = acquisitions + 1
    /\ details' = NoDetails
    /\ pc' = "w_pollGet"
    /\ UNCHANGED <<cliVars, histVars, expr, result, ctx, ticker, tickerInterval, ret, pollInterval,
                   callback, sinkCalls, failedPolls, lastAcq, consecutiveFailures,
                   currentInterval>>

\* variant that takes the tick without issuing a call
WfcTickDrops ==
    /\ pc = "w_select"
    /\ tickPending
    /\ acquisitions < MaxPolls
    /\ tickPending' = FALSE
    /\ UNCHANGED <<cliVars, histVars, pc, expr, details, result, ctx, ticker, tickerInterval,
                   ret, pollInterval, callback, acquisitions, sinkCalls, failedPolls,
                   lastAcq, consecutiveFailures, currentInterval>>

\* select: case <-ticker.C: the next GetManifestWorkDetailsHTTP call is issued
\* (the snapshot of the previous iteration is out of scope)
WfcTick ==
    /\ pc = "w_select"
    /\ tickPending
    /\ acquisitions < MaxPolls
    /\ tickPending' = FALSE
    /\ acquisitions' = acquisitions + 1
    /\ details' = NoDetails
    /\ pc' = "w_pollGet"
    /\ UNCHANGED <<cliVars, histVars, expr, result, ctx, ticker, tickerInterval, ret, pollInterval,
                   callback, sinkCalls, failedPolls, lastAcq, consecutiveFailures,
                   currentInterval>>

\* the poll returns a snapshot
WfcPollOk ==
    /\ pc = "w_pollGet"
    /\ \E s \in WaitSnaps : details' = s
    /\ lastAcq' = "ok"
    /\ okAcqs' = okAcqs + 1
    /\ failedPolls' = 0
    /\ pc' = "w_pollEval"
    /\ UNCHANGED <<cliVars, errAcqs, sinkErrs, expr, result, ctx, ticker, tickerInterval,
                   tickPending, ret, pollInterval, callback, acquisitions, sinkCalls,
                   consecutiveFailures, currentInterval>>

\* variant in which a failed poll ends the wait with the error
WfcPollFailReturns ==
    /\ pc = "w_pollGet"
    /\ \E kind \in {"transient", "notfound"} : lastAcq' = kind
    /\ errAcqs' = errAcqs + 1
    /\ failedPolls' = failedPolls + 1
    /\ ret' = "getError"
    /\ ticker' = "stopped"
    /\ pc' = "w_done"
    /\ UNCHANGED <<cliVars, okAcqs, sinkErrs, expr, details, result, ctx, tickerInterval,
                   tickPending, pollInterval, callback, acquisitions, sinkCalls,
                   consecutiveFailures, currentInterval>>

\* variant in which a failed poll resets the ticker as runWatchCommand does
WfcPollFailBackoff ==
    /\ pc = "w_pollGet"
    /\ \E kind \in {"transient", "notfound"} : lastAcq' = kind
    /\ errAcqs' = errAcqs + 1
    /\ failedPolls' = failedPolls + 1
    /\ tickerInterval' =
           updateBackoffInterval(tickerInterval, failedPolls + 1, pollInterval).interval
    /\ pc' = "w_select"
    /\ UNCHANGED <<cliVars, okAcqs, sinkErrs, expr, details, result, ctx, ticker, tickPending, ret,
                   pollInterval, callback, acquisitions, sinkCalls, consecutiveFailures,
                   currentInterval>>

\* the poll fails: log.Warn and continue
WfcPollFail ==
    /\ pc = "w_pollGet"
    /\ \E kind \in {"transient", "notfound"} : lastAcq' = kind
    /\ errAcqs' = errAcqs + 1
    /\ failedPolls' = failedPolls + 1
    /\ pc' = "w_select"
    /\ UNCHANGED <<cliVars, okAcqs, sinkErrs, expr, details, result, ctx, ticker, tickerInterval,
                   tickPending, ret, pollInterval, callback, acquisitions, sinkCalls,
                   consecutiveFailures, currentInterval>>

\* variant that returns nil on the first polled snapshot whatever it
\* evaluates to
WfcPollCheckAny ==
    /\ pc = "w_pollEval"
    /\ result' = evaluateConditionExpression(details, expr)
    /\ sinkCalls' = IF callback THEN sinkCalls + 1 ELSE sinkCalls
    /\ \E failed \in {callback, FALSE} :
           sinkErrs' = IF failed THEN sinkErrs + 1 ELSE sinkErrs
    /\ pc' = "w_done"
    /\ ret' = "nil"
    /\ ticker' = "stopped"
    /\ UNCHANGED <<cliVars, okAcqs, errAcqs, expr, details, ctx, tickerInterval, tickPending,
                   pollInterval, callback, acquisitions, failedPolls, lastAcq,
                   consecutiveFailures, currentInterval>>

\* variant that ends the wait with the callback's error
WfcPollCheckAbortsOnSinkError ==
    LET conditionMet == evaluateConditionExpression(details, expr)
    IN  /\ pc = "w_pollEval"
        /\ result' = conditionMet
        /\ sinkCalls' = IF callback THEN sinkCalls + 1 ELSE sinkCalls
        /\ \E failed \in {callback, FALSE} :
               /\ sinkErrs' = IF failed THEN sinkErrs + 1 ELSE sinkErrs
               /\ IF failed \/ conditionMet
                  THEN /\ pc' = "w_done"
                       /\ ret' = IF failed THEN "sinkError" ELSE "nil"
                       /\ ticker' = "stopped"
                  ELSE /\ pc' = "w_select"
                       /\ UNCHANGED <<ret, ticker>>
        /\ UNCHANGED <<cliVars, okAcqs, errAcqs, details, expr, ctx, tickerInterval, tickPending,
                       pollInterval, callback, acquisitions, failedPolls, lastAcq,
                       consecutiveFailures, currentInterval>>

\* variant that goes round the loop whatever the polled snapshot evaluates to
WfcPollCheckGoesOn ==
    /\ pc = "w_pollEval"
    /\ result' = evaluateConditionExpression(details, expr)
    /\ sinkCalls' = IF callback THEN sinkCalls + 1 ELSE sinkCalls
    /\ \E failed \in {callback, FALSE} :
           sinkErrs' = IF failed THEN sinkErrs + 1 ELSE sinkErrs
    /\ pc' = "w_select"
    /\ UNCHANGED <<cliVars, okAcqs, errAcqs, expr, details, ret, ticker, ctx, tickerInterval,
                   tickPending, pollInterval, callback, acquisitions, failedPolls, lastAcq,
                   consecutiveFailures, currentInterval>>

\* evaluate the polled snapshot, report it to the callback, and either
\* return nil or go round the loop
WfcPollCheck ==
    LET conditionMet == evaluateConditionExpression(details, expr)
    IN  /\ pc = "w_pollEval"
        /\ result' = conditionMet
        /\ sinkCalls' = IF callback THEN sinkCalls + 1 ELSE sinkCalls
        /\ \E failed \in {callback, FALSE} :
               sinkErrs' = IF failed THEN sinkErrs + 1 ELSE sinkErrs
        /\ IF conditionMet
           THEN /\ pc' = "w_done"
                /\ ret' = "nil"
                /\ ticker' = "stopped"
                /\ UNCHANGED details
           ELSE /\ pc' = "w_select"
                /\ UNCHANGED <<details, ret, ticker>>
        /\ UNCHANGED <<cliVars, okAcqs, errAcqs, expr, ctx, tickerInterval, tickPending,
                       pollInterval, callback, acquisitions, failedPolls, lastAcq,
                       consecutiveFailures, currentInterval>>

NextWait ==
    \/ WfcInitGet
    \/ WfcInitOk
    \/ WfcInitFail
    \/ WfcInitCheck
    \/ WfcCtxDone
    \/ WfcTick
    \/ WfcPollOk
    \/ WfcPollFail
    \/ WfcPollCheck
    \/ TickFire
    \/ CtxCancel
    \/ CtxDeadline

SpecWait == InitWait /\ [][NextWait]_vars

\* ------------------------------------------------------------------------
\* WaitForDeletion
\* ------------------------------------------------------------------------

\* strings.Contains(err.Error(), "not found")
notFoundStr == <<"n", "o", "t", " ", "f", "o", "u", "n", "d">>

\* the error texts GetManifestWorkByNameHTTP returns (names shortened to w, c)
errNotFound ==
    <<"M", "a", "n", "i", "f", "e", "s", "t", "W", "o", "r", "k", " ", "'", "w", "'",
      " ", "n", "o", "t", " ", "f", "o", "u", "n", "d", " ", "f", "o", "r", " ", "c",
      "o", "n", "s", "u", "m", "e", "r", " ", "'", "c", "'">>

errSearch ==
    <<"f", "a", "i", "l", "e", "d", " ", "t", "o", " ", "s", "e", "a", "r", "c", "h",
      " ", "r", "e", "s", "o", "u", "r", "c", "e", " ", "b", "u", "n", "d", "l", "e",
      "s", ":", " ", "E", "O", "F">>

errInvalid ==
    <<"i", "n", "v", "a", "l", "i", "d", " ", "c", "o", "n", "s", "u", "m", "e", "r",
      " ", "n", "a", "m", "e", ":", " ", "s", "e", "a", "r", "c", "h", " ", "q", "u",
      "e", "r", "y", " ", "c", "a", "n", "n", "o", "t", " ", "b", "e", " ", "e", "m",
      "p", "t", "y">>

\* what one call of GetManifestWorkByNameHTTP returns: the summary of the
\* resource (err nil, written <<>>), or the error of one of its return statements
DeletionResults ==
    {[kind |-> "ok", err |-> <<>>],
     [kind |-> "notfound", err |-> errNotFound],
     [kind |-> "transient", err |-> errSearch],
     [kind |-> "transient", err |-> errInvalid]}

\* state after: pollInterval defaulted; ticker := time.NewTicker(pollInterval)
InitDelete ==
    /\ NoCommand
    /\ pc = "d_select"
    /\ expr = <<>>
    /\ details = NoDetails
    /\ result = FALSE
    /\ ctx \in {"live", "canceled"}
    /\ pollInterval \in {EffectivePollInterval(arg) : arg \in {Zero64, Mul64(Int64(2), Second)}}
    /\ ticker = "running"
    /\ tickerInterval = pollInterval
    /\ tickPending = FALSE
    /\ ret = "none"
    /\ callback = FALSE
    /\ acquisitions = 0
    /\ sinkCalls = 0
    /\ failedPolls = 0
    /\ lastAcq = "none"
    /\ consecutiveFailures = 0
    /\ currentInterval = Zero64
    /\ okAcqs = 0
    /\ errAcqs = 0
    /\ sinkErrs = 0

\* variant that returns nil when the context is done
WfdCtxDoneNil ==
    /\ pc = "d_select"
    /\ ctx # "live"
    /\ ret' = "nil"
    /\ ticker' = "stopped"
    /\ pc' = "d_done"
    /\ UNCHANGED <<cliVars, histVars, expr, details, result, ctx, tickerInterval, tickPending,
                   pollInterval, callback, acquisitions, sinkCalls, failedPolls, lastAcq,
                   consecutiveFailures, currentInterval>>

\* select: case <-ctx.Done(): return ctx.Err() (the deferred ticker.Stop runs)
WfdCtxDone ==
    /\ pc = "d_select"
    /\ ctx # "live"
    /\ ret' = ctx
    /\ ticker' = "stopped"
    /\ pc' = "d_done"
    /\ UNCHANGED <<cliVars, histVars, expr, details, result, ctx, tickerInterval, tickPending,
                   pollInterval, callback, acquisitions, sinkCalls, failedPolls, lastAcq,
                   consecutiveFailures, currentInterval>>

\* select: case <-ticker.C: the GetManifestWorkByNameHTTP call is issued
WfdTick ==
    /\ pc = "d_select"
    /\ tickPending
    /\ acquisitions < MaxPolls
    /\ tickPending' = FALSE
    /\ acquisitions' = acquisitions + 1
    /\ pc' = "d_get"
    /\ UNCHANGED <<cliVars, histVars, expr, details, result, ctx, ticker, tickerInterval, ret,
                   pollInterval, callback, sinkCalls, failedPolls, lastAcq,
                   consecutiveFailures, currentInterval>>

\* variant that takes every error for the end of the deletion
WfdPollAnyError ==
    /\ pc = "d_get"
    /\ \E r \in DeletionResults :
           /\ lastAcq' = r.kind
           /\ IF r.err = <<>>
              THEN /\ okAcqs' = okAcqs + 1
                   /\ failedPolls' = 0
                   /\ pc' = "d_select"
                   /\ UNCHANGED <<errAcqs, ret, ticker>>
              ELSE /\ errAcqs' = errAcqs + 1
                   /\ ret' = "nil"
                   /\ ticker' = "stopped"
                   /\ pc' = "d_done"
                   /\ UNCHANGED <<okAcqs, failedPolls>>
    /\ UNCHANGED tickerInterval
    /\ UNCHANGED <<cliVars, sinkErrs, expr, details, result, ctx, tickPending, pollInterval,
                   callback, acquisitions, sinkCalls, consecutiveFailures,
                   currentInterval>>

\* variant that widens the interval after an error as runWatchCommand does
WfdPollBackoff ==
    /\ pc = "d_get"
    /\ \E r \in DeletionResults :
           /\ lastAcq' = r.kind
           /\ IF r.err = <<>>
              THEN /\ okAcqs' = okAcqs + 1
                   /\ failedPolls' = 0
                   /\ pc' = "d_select"
                   /\ UNCHANGED <<errAcqs, ret, ticker, tickerInterval>>
              ELSE /\ errAcqs' = errAcqs + 1
                   /\ IF Contains(r.err, notFoundStr)
                      THEN /\ ret' = "nil"
                           /\ ticker' = "stopped"
                           /\ pc' = "d_done"
                           /\ UNCHANGED <<failedPolls, tickerInterval>>
                      ELSE /\ failedPolls' = failedPolls + 1
                           /\ tickerInterval' =
                                  updateBackoffInterval(tickerInterval, failedPolls + 1,
                                                        pollInterval).interval
                           /\ pc' = "d_select"
                           /\ UNCHANGED <<ret, ticker>>
                   /\ UNCHANGED okAcqs
    /\ UNCHANGED <<cliVars, sinkErrs, expr, details, result, ctx, tickPending, pollInterval,
                   callback, acquisitions, sinkCalls, consecutiveFailures,
                   currentInterval>>

\* the call returns: nil error (the resource still resolves) goes round the
\* loop; an error containing "not found" returns nil; any other error is
\* logged and the loop goes on
WfdPoll ==
    /\ pc = "d_get"
    /\ \E r \in DeletionResults :
           /\ lastAcq' = r.kind
           /\ IF r.err = <<>>
              THEN /\ okAcqs' = okAcqs + 1
                   /\ failedPolls' = 0
                   /\ pc' = "d_select"
                   /\ UNCHANGED <<errAcqs, ret, ticker>>
              ELSE /\ errAcqs' = errAcqs + 1
                   /\ IF Contains(r.err, notFoundStr)
                      THEN /\ ret' = "nil"
                           /\ ticker' = "stopped"
                           /\ pc' = "d_done"
                           /\ UNCHANGED failedPolls
                      ELSE /\ failedPolls' = failedPolls + 1
                           /\ pc' = "d_select"
                           /\ UNCHANGED <<ret, ticker>>
                   /\ UNCHANGED okAcqs
    /\ UNCHANGED <<cliVars, sinkErrs, expr, details, result, ctx, tickerInterval, tickPending,
                   pollInterval, callback, acquisitions, sinkCalls, consecutiveFailures,
                   currentInterval>>

NextDelete ==
    \/ WfdCtxDone
    \/ WfdTick
    \/ WfdPoll
    \/ TickFire
    \/ CtxCancel
    \/ CtxDeadline

SpecDelete == InitDelete /\ [][NextDelete]_vars

\* condition-wait and deletion-wait side by side
InitWaits == InitWait \/ InitDelete

NextWaits == NextWait \/ NextDelete

SpecWaits == InitWaits /\ [][NextWaits]_vars

\* issuing the first call, and the return of a call
CallStep ==
    \/ WfcInitGet
    \/ WfcInitOk
    \/ WfcInitFail
    \/ WfcPollOk
    \/ WfcPollFail
    \/ WfdPoll

\* the wait is evaluating a snapshot and invoking the callback
Evaluating == pc \in {"w_initEval", "w_pollEval"}

\* the ctx.Done() case of either select
CtxDoneCase == WfcCtxDone \/ WfdCtxDone

\* The waits under the scheduling the program relies on: the deadline of
\* context.WithTimeout passes; every call that was issued returns; the
\* evaluation of a snapshot and the callback return (WfcInitCheck and
\* WfcPollCheck are enabled whenever the wait is Evaluating and end it, so
\* this is weak fairness of the two); and a select at which ctx.Done() is
\* ready again and again takes that case at some point (Go chooses among the
\* ready cases at random).
FairWaits ==
    /\ SpecWaits
    /\ WF_vars(CtxDeadline)
    /\ WF_vars(CallStep)
    /\ []<>(~Evaluating)
    /\ SF_vars(CtxDoneCase)

\* WaitForCondition under fair scheduling of the timer: the ticker's period
\* elapses (the runtime's timer fires); a select at which the tick is ready
\* and stays ready takes a case; every call that was issued returns; and
\* the evaluation of a snapshot and the callback return.  Nothing is
\* required of the context: the deadline may never pass.
FairTicks ==
    /\ SpecWait
    /\ WF_vars(TickFire)
    /\ WF_vars(WfcTick)
    /\ WF_vars(CallStep)
    /\ []<>(~Evaluating)

\* ------------------------------------------------------------------------
\* The commands that run a wait: runWaitCommand, runApplyCommand and
\* runBuildCommand (WaitForCondition) and deleteManifestWork
\* (WaitForDeletion), from the point where the wait is set up.
\* ------------------------------------------------------------------------

\* 5 * time.Minute
FiveMinutes == Mul64(Int64(5), Minute)

\* err.Error() of what the wait returned: context.DeadlineExceeded,
\* context.Canceled, or the error of a failed first acquisition
ErrorText(r) ==
    IF r = "deadline"
    THEN
      <<"c", "o", "n", "t", "e", "x", "t", " ", "d", "e", "a", "d", "l", "i",
        "n", "e", " ", "e", "x", "c", "e", "e", "d", "e", "d">>
    ELSE IF r = "canceled"
    THEN
      <<"c", "o", "n", "t", "e", "x", "t", " ", "c", "a", "n", "c", "e", "l",
        "e", "d">>
    ELSE
      <<"f", "a", "i", "l", "e", "d", " ", "t", "o", " ", "g", "e", "t", " ",
        "M", "a", "n", "i", "f", "e", "s", "t", "W", "o", "r", "k", ":", " ",
        "r", "e", "q", "u", "e", "s", "t", " ", "f", "a", "i", "l", "e", "d">>

\* flags.Timeout is not given, or is 30 seconds; flags.ResultsPath is not
\* given, so that no callback is passed
InitCli ==
    /\ pc = "c_start"
    /\ command \in {"wait", "apply", "build", "delete"}
    /\ timeout \in {Zero64, Mul64(Int64(30), Second)}
    /\ waitTimeout = Zero64
    /\ hasDeadline = (command # "wait" /\ timeout # Zero64)
    /\ cmdErr = NoError
    /\ expr = (IF command = "delete" THEN <<>> ELSE nameA)
    /\ callback = FALSE
    /\ details = NoDetails
    /\ result = FALSE
    /\ ctx = "live"
    /\ ticker = "none"
    /\ tickerInterval = Zero64
    /\ tickPending = FALSE
    /\ ret = "none"
    /\ pollInterval = DefaultPollInterval
    /\ acquisitions = 0
    /\ sinkCalls = 0
    /\ failedPolls = 0
    /\ lastAcq = "none"
    /\ consecutiveFailures = 0
    /\ currentInterval = Zero64
    /\ okAcqs = 0
    /\ errAcqs = 0
    /\ sinkErrs = 0

\* variant that passes flags.Timeout on as it is
runWaitCommandNoDefault ==
    /\ pc = "c_start"
    /\ command = "wait"
    /\ waitTimeout' = timeout
    /\ hasDeadline' = TRUE
    /\ pollInterval' = EffectivePollInterval(DefaultPollInterval)
    /\ pc' = "w_start"
    /\ UNCHANGED <<histVars, expr, details, result, ctx, ticker, tickerInterval, tickPending,
                   ret, callback, acquisitions, sinkCalls, failedPolls, lastAcq,
                   consecutiveFailures, currentInterval, command, timeout, cmdErr>>

\* runWaitCommand up to the call of WaitForCondition
runWaitCommand ==
    /\ pc = "c_start"
    /\ command = "wait"
    /\ waitTimeout' = (IF timeout = Zero64 THEN FiveMinutes ELSE timeout)
    /\ hasDeadline' = TRUE
    /\ pollInterval' = EffectivePollInterval(DefaultPollInterval)
    /\ pc' = "w_start"
    /\ UNCHANGED <<histVars, expr, details, result, ctx, ticker, tickerInterval, tickPending,
                   ret, callback, acquisitions, sinkCalls, failedPolls, lastAcq,
                   consecutiveFailures, currentInterval, command, timeout, cmdErr>>

\* runWaitCommand from the return of WaitForCondition
runWaitCommandReturn ==
    /\ pc = "w_done"
    /\ command = "wait"
    /\ cmdErr' = (IF ret = "nil" THEN NoError ELSE Error(
                        <<"e", "r", "r", "o", "r", " ", "w", "a", "i", "t",
                          "i", "n", "g", " ", "f", "o", "r", " ", "c", "o",
                          "n", "d", "i", "t", "i", "o", "n", " ", "'">>
                        \o expr \o <<"'", ":", " ">> \o ErrorText(ret)))
    /\ pc' = "c_done"
    /\ UNCHANGED <<histVars, expr, details, result, ctx, ticker, tickerInterval, tickPending,
                   ret, pollInterval, callback, acquisitions, sinkCalls, failedPolls, lastAcq,
                   consecutiveFailures, currentInterval, command, timeout, waitTimeout,
                   hasDeadline>>

\* runApplyCommand up to the call of WaitForCondition (flags.Wait is set)
runApplyCommand ==
    /\ pc = "c_start"
    /\ command = "apply"
    /\ waitTimeout' = (IF timeout = Zero64 THEN FiveMinutes ELSE timeout)
    /\ hasDeadline' = TRUE
    /\ pollInterval' = EffectivePollInterval(DefaultPollInterval)
    /\ pc' = "w_start"
    /\ UNCHANGED <<histVars, expr, details, result, ctx, ticker, tickerInterval, tickPending,
                   ret, callback, acquisitions, sinkCalls, failedPolls, lastAcq,
                   consecutiveFailures, currentInterval, command, timeout, cmdErr>>

\* runApplyCommand from the return of WaitForCondition
runApplyCommandReturn ==
    /\ pc = "w_done"
    /\ command = "apply"
    /\ cmdErr' = (IF ret = "nil" THEN NoError ELSE Error(ErrorText(ret)))
    /\ pc' = "c_done"
    /\ UNCHANGED <<histVars, expr, details, result, ctx, ticker, tickerInterval, tickPending,
                   ret, pollInterval, callback, acquisitions, sinkCalls, failedPolls, lastAcq,
                   consecutiveFailures, currentInterval, command, timeout, waitTimeout,
                   hasDeadline>>

\* runBuildCommand up to the call of WaitForCondition (flags.Wait is set)
runBuildCommand ==
    /\ pc = "c_start"
    /\ command = "build"
    /\ waitTimeout' = (IF timeout = Zero64 THEN FiveMinutes ELSE timeout)
    /\ hasDeadline' = TRUE
    /\ pollInterval' = EffectivePollInterval(DefaultPollInterval)
    /\ pc' = "w_start"
    /\ UNCHANGED <<histVars, expr, details, result, ctx, ticker, tickerInterval, tickPending,
                   ret, callback, acquisitions, sinkCalls, failedPolls, lastAcq,
                   consecutiveFailures, currentInterval, command, timeout, cmdErr>>

\* runBuildCommand from the return of WaitForCondition
runBuildCommandReturn ==
    /\ pc = "w_done"
    /\ command = "build"
    /\ cmdErr' = (IF ret = "nil" THEN NoError ELSE Error(ErrorText(ret)))
    /\ pc' = "c_done"
    /\ UNCHANGED <<histVars, expr, details, result, ctx, ticker, tickerInterval, tickPending,
                   ret, pollInterval, callback, acquisitions, sinkCalls, failedPolls, lastAcq,
                   consecutiveFailures, currentInterval, command, timeout, waitTimeout,
                   hasDeadline>>

\* deleteManifestWork up to the select of WaitForDeletion (flags.Wait is
\* set): the timeout, the context, and the ticker WaitForDeletion creates
deleteManifestWork ==
    /\ pc = "c_start"
    /\ command = "delete"
    /\ waitTimeout' = (IF timeout = Zero64 THEN FiveMinutes ELSE timeout)
    /\ hasDeadline' = TRUE
    /\ pollInterval' = EffectivePollInterval(DefaultPollInterval)
    /\ ticker' = "running"
    /\ tickerInterval' = pollInterval'
    /\ pc' = "d_select"
    /\ UNCHANGED <<histVars, expr, details, result, ctx, tickPending, ret, callback,
                   acquisitions, sinkCalls, failedPolls, lastAcq, consecutiveFailures,
                   currentInterval, command, timeout, cmdErr>>

\* deleteManifestWork from the return of WaitForDeletion
deleteManifestWorkReturn ==
    /\ pc = "d_done"
    /\ command = "delete"
    /\ cmdErr' = (IF ret = "nil" THEN NoError
                  ELSE Error(
                        <<"e", "r", "r", "o", "r", " ", "w", "a", "i", "t",
                          "i", "n", "g", " ", "f", "o", "r", " ", "d", "e",
                          "l", "e", "t", "i", "o", "n", ":", " ">>
                        \o ErrorText(ret)))
    /\ pc' = "c_done"
    /\ UNCHANGED <<histVars, expr, details, result, ctx, ticker, tickerInterval, tickPending,
                   ret, pollInterval, callback, acquisitions, sinkCalls, failedPolls, lastAcq,
                   consecutiveFailures, currentInterval, command, timeout, waitTimeout,
                   hasDeadline>>

NextCli ==
    \/ runWaitCommand
    \/ runWaitCommandReturn
    \/ runApplyCommand
    \/ runApplyCommandReturn
    \/ runBuildCommand
    \/ runBuildCommandReturn
    \/ deleteManifestWork
    \/ deleteManifestWorkReturn
    \/ NextWaits

SpecCli == InitCli /\ [][NextCli]_vars

\* ------------------------------------------------------------------------
\* runWatchCommand
\* ------------------------------------------------------------------------

MaxFailures == 36

\* flags.PollInterval
WatchIntervals == {Second, Mul64(Int64(2), Second), Mul64(Int64(10), Minute)}

\* state after: consecutiveFailures := 0; baseInterval := flags.PollInterval;
\* currentInterval := baseInterval; ticker := time.NewTicker(currentInterval)
InitWatch ==
    /\ NoCommand
    /\ pc = "r_start"
    /\ expr = <<>>
    /\ details = NoDetails
    /\ result = FALSE
    /\ ctx = "live"
    /\ ticker = "running"
    /\ pollInterval \in WatchIntervals
    /\ tickerInterval = pollInterval
    /\ currentInterval = pollInterval
    /\ consecutiveFailures = 0
    /\ tickPending = FALSE
    /\ ret = "none"
    /\ callback = FALSE
    /\ acquisitions = 0
    /\ sinkCalls = 0
    /\ failedPolls = 0
    /\ lastAcq = "none"
    /\ okAcqs = 0
    /\ errAcqs = 0
    /\ sinkErrs = 0

\* consecutiveFailures++ ; updateBackoffInterval(&currentInterval,
\* &consecutiveFailures, baseInterval, ticker), after a failed status check
RwBackoff ==
    LET failures == consecutiveFailures + 1
        u        == updateBackoffInterval(currentInterval, failures, pollInterval)
    IN  /\ consecutiveFailures' = failures
        /\ currentInterval' = u.interval
        /\ IF u.reset /\ TickerPanics(u.interval)
           THEN /\ pc' = "r_panic"
                /\ ret' = "panic"
                /\ ticker' = "stopped"
                /\ UNCHANGED tickerInterval
           ELSE /\ pc' = "r_select"
                /\ tickerInterval' = IF u.reset THEN u.interval ELSE tickerInterval
                /\ UNCHANGED <<cliVars, ret, ticker>>

\* variant that clears the counter and leaves the interval as it is
RwResetKeepsInterval ==
    /\ pc' = "r_select"
    /\ consecutiveFailures' = 0
    /\ UNCHANGED <<cliVars, currentInterval, tickerInterval, ret, ticker>>

\* the success branch of the loop: reset the backoff if there were failures
RwReset ==
    /\ pc' = "r_select"
    /\ IF consecutiveFailures > 0
       THEN /\ consecutiveFailures' = 0
            /\ currentInterval' = pollInterval
            /\ tickerInterval' = currentInterval'
       ELSE UNCHANGED <<consecutiveFailures, currentInterval, tickerInterval>>
    /\ UNCHANGED <<cliVars, ret, ticker>>

\* the initial printWatchStatus succeeds
RwInitialOk ==
    /\ pc = "r_start"
    /\ pc' = "r_select"
    /\ acquisitions' = acquisitions + 1
    /\ okAcqs' = okAcqs + 1
    /\ lastAcq' = "ok"
    /\ UNCHANGED <<cliVars, errAcqs, sinkErrs, expr, details, result, ctx, ticker, tickerInterval,
                   tickPending, ret, pollInterval, callback, sinkCalls, failedPolls,
                   consecutiveFailures, currentInterval>>

\* the initial printWatchStatus fails
RwInitialFail ==
    /\ pc = "r_start"
    /\ acquisitions' = acquisitions + 1
    /\ errAcqs' = errAcqs + 1
    /\ lastAcq' = "transient"
    /\ RwBackoff
    /\ UNCHANGED <<cliVars, okAcqs, sinkErrs, expr, details, result, ctx, tickPending, pollInterval,
                   callback, sinkCalls, failedPolls>>

\* variant that returns the context's error
RwCtxDoneReturnsErr ==
    /\ pc = "r_select"
    /\ ctx # "live"
    /\ ret' = ctx
    /\ ticker' = "stopped"
    /\ pc' = "r_done"
    /\ UNCHANGED <<cliVars, histVars, expr, details, result, ctx, tickerInterval, tickPending,
                   pollInterval, callback, acquisitions, sinkCalls, failedPolls, lastAcq,
                   consecutiveFailures, currentInterval>>

\* select: case <-watchCtx.Done(): "Watch stopped", return nil
RwCtxDone ==
    /\ pc = "r_select"
    /\ ctx # "live"
    /\ ret' = "nil"
    /\ ticker' = "stopped"
    /\ pc' = "r_done"
    /\ UNCHANGED <<cliVars, histVars, expr, details, result, ctx, tickerInterval, tickPending,
                   pollInterval, callback, acquisitions, sinkCalls, failedPolls, lastAcq,
                   consecutiveFailures, currentInterval>>

\* select: case <-ticker.C: printWatchStatus succeeds
RwTickOk ==
    /\ pc = "r_select"
    /\ tickPending
    /\ okAcqs < MaxPolls
    /\ tickPending' = FALSE
    /\ acquisitions' = acquisitions + 1
    /\ okAcqs' = okAcqs + 1
    /\ lastAcq' = "ok"
    /\ RwReset
    /\ UNCHANGED <<cliVars, errAcqs, sinkErrs, expr, details, result, ctx, pollInterval, callback,
                   sinkCalls, failedPolls>>

\* select: case <-ticker.C: printWatchStatus fails
RwTickFail ==
    /\ pc = "r_select"
    /\ tickPending
    /\ errAcqs < MaxFailures
    /\ tickPending' = FALSE
    /\ acquisitions' = acquisitions + 1
    /\ errAcqs' = errAcqs + 1
    /\ lastAcq' = "transient"
    /\ RwBackoff
    /\ UNCHANGED <<cliVars, okAcqs, sinkErrs, expr, details, result, ctx, pollInterval, callback,
                   sinkCalls, failedPolls>>

NextWatch ==
    \/ RwInitialOk
    \/ RwInitialFail
    \/ RwCtxDone
    \/ RwTickOk
    \/ RwTickFail
    \/ TickFire
    \/ CtxCancel
    \/ CtxDeadline

SpecWatch == InitWatch /\ [][NextWatch]_vars

\* the three polling loops side by side: a run is one of WaitForCondition,
\* WaitForDeletion or runWatchCommand
SpecLoops == (InitWaits \/ InitWatch) /\ [][NextWaits \/ NextWatch]_vars

\* ------------------------------------------------------------------------
\* Claims about the evaluator
\* ------------------------------------------------------------------------

Eval(e) == evaluateConditionExpression(details, e)

IsName(w) == w \in Names

IsOperator(w) == w \in Operators

\* a chain of the grammar without parentheses: name (operator name)*
WellFormedWords(ws) ==
    /\ Len(ws) % 2 = 1
    /\ \A i \in 1..Len(ws) : IF i % 2 = 1 THEN IsName(ws[i]) ELSE IsOperator(ws[i])

\* the expressions of ParenExprs are all malformed or empty; a word sequence
\* is malformed when it is not a chain of the grammar
Malformed(e) ==
    \/ e \in ParenExprs
    \/ e \in WordExprs /\ ~WellFormedWords(Fields(e))

Parseable(ts) == ~TimeParse(ts).err

Instant(ts) == TimeParse(ts).t

IsLastTrue(conds, i, type) ==
    /\ EqualFold(conds[i].Type, type)
    /\ conds[i].Status = "True"
    /\ \A k \in (i + 1)..Len(conds) :
           ~(EqualFold(conds[k].Type, type) /\ conds[k].Status = "True")

C4_AndBindsTighter ==
    \A x, y, z \in Names :
        (pc = "done" /\ expr = Join(<<x, opOR, y, opAND, z>>)) =>
            result = (Eval(x) \/ (Eval(y) /\ Eval(z)))

\* C5: compositionality: whenever the expression is "E1 AND E2" (resp.
\* "E1 OR E2") for chains E1, E2 of the grammar, its value is the
\* conjunction (resp. disjunction) of the values of E1 and E2.
C5_Compositional ==
    pc = "done" =>
        LET ws == Fields(expr)
        IN  \A k \in 1..Len(ws) :
                LET e1 == SubSeq(ws, 1, k - 1)
                    e2 == SubSeq(ws, k + 1, Len(ws))
                IN  (expr \in WordExprs /\ WellFormedWords(e1) /\ WellFormedWords(e2)) =>
                       /\ ws[k] = opAND => result = (Eval(Join(e1)) /\ Eval(Join(e2)))
                       /\ ws[k] = opOR  => result = (Eval(Join(e1)) \/ Eval(Join(e2)))

\* C6: fail-closed parsing: the empty expression and every malformed
\* expression evaluate to false on every snapshot.
C6_FailClosed ==
    (pc = "done" /\ Malformed(expr)) => result = FALSE

\* ------------------------------------------------------------------------
\* Claims about WaitForCondition
\* ------------------------------------------------------------------------

Failed(outcome) == outcome \in {"transient", "notfound"}

\* C1: the wait returns nil only if the snapshot acquired last evaluated to
\* true, and once a snapshot has evaluated to true the wait has returned nil
\* (no further acquisition is started).
C1_SuccessOnlyOnTrue ==
    /\ (pc = "w_done" /\ ret = "nil") =>
           /\ lastAcq = "ok"
           /\ result = TRUE
           /\ evaluateConditionExpression(details, expr)
    /\ (pc \in {"w_select", "w_pollGet", "w_pollEval"} \/ (pc = "w_done" /\ ret # "nil")) =>
           result = FALSE

\* a poll, not the first acquisition, returned a snapshot that evaluated to
\* true, and the wait returned nil
C1_Witness ==
    /\ pc = "w_done"
    /\ ret = "nil"
    /\ acquisitions = 2
    /\ evaluateConditionExpression(details, expr)

\* some Applied condition with status True has a time T2 such that every
\* condition of the type with status True has a parseable time before T2
StaleForSomeApplied(conds, type) ==
    \E i \in 1..Len(conds) :
        /\ EqualFold(conds[i].Type, AppliedStr)
        /\ conds[i].Status = "True"
        /\ Parseable(conds[i].LastTransitionTime)
        /\ \A j \in 1..Len(conds) :
               (EqualFold(conds[j].Type, type) /\ conds[j].Status = "True") =>
                   /\ Parseable(conds[j].LastTransitionTime)
                   /\ Instant(conds[j].LastTransitionTime) < Instant(conds[i].LastTransitionTime)

\* the same, for the last Applied condition with status True in list order
StaleForLastApplied(conds, type) ==
    \E i \in 1..Len(conds) :
        /\ IsLastTrue(conds, i, AppliedStr)
        /\ Parseable(conds[i].LastTransitionTime)
        /\ \A j \in 1..Len(conds) :
               (EqualFold(conds[j].Type, type) /\ conds[j].Status = "True") =>
                   /\ Parseable(conds[j].LastTransitionTime)
                   /\ Instant(conds[j].LastTransitionTime) < Instant(conds[i].LastTransitionTime)

\* C3 as stated: a wait on a top-level condition T (not Applied) never
\* returns nil on a snapshot in which Applied is True with time T2 and every
\* True condition of type T has a parseable time earlier than T2.
C3_NoSuccessOnStaleAnyApplied ==
    (pc = "w_done" /\ ret = "nil" /\ ~EqualFold(expr, AppliedStr)) =>
        ~StaleForSomeApplied(details.Conditions, expr)

\* C3 amended: ... on a snapshot in which the last Applied condition with
\* status True (in list order) has time T2 and every True condition of type
\* T has a parseable time earlier than T2.
C3_NoSuccessOnStale ==
    (pc = "w_done" /\ ret = "nil" /\ ~EqualFold(expr, AppliedStr)) =>
        ~StaleForLastApplied(details.Conditions, expr)

\* a poll read a stale snapshot (A from before the Applied transition) and
\* the wait is back at its select
C3_Witness ==
    /\ pc = "w_select"
    /\ acquisitions = 2
    /\ lastAcq = "ok"
    /\ details.Conditions = <<Cond(AppliedStr, "True", T2), Cond(nameA, "True", T1)>>
    /\ result = FALSE

\* C7: no ticker exists until the first snapshot has been acquired and
\* evaluated; a first snapshot that satisfies the expression makes the wait
\* return nil with no ticker created and no tick taken, and the loop is
\* entered only when the first snapshot did not satisfy it.
C7_InitialCheckBeforeTimer ==
    /\ pc \in {"w_start", "w_initGet", "w_initEval"} => (ticker = "none" /\ ~tickPending)
    /\ ticker # "none" => acquisitions >= 1
    /\ (acquisitions = 1 /\ pc = "w_done" /\ ret = "nil") =>
           (ticker = "none" /\ ~tickPending /\ evaluateConditionExpression(details, expr))
    /\ (acquisitions = 1 /\ pc = "w_select") =>
           ~evaluateConditionExpression(details, expr)

\* the first snapshot satisfied the expression and the wait returned at once
C7_Witness ==
    /\ pc = "w_done"
    /\ ret = "nil"
    /\ acquisitions = 1
    /\ ticker = "none"
    /\ evaluateConditionExpression(details, expr)

MathBackoff(base, n) ==
    LET b == CHOOSE sec \in {1, 2, 600} : Mul64(Int64(sec), Second) = base
        cap == 5 * 60
        sec == IF n - 1 >= 9 \/ b * (2 ^ (n - 1)) > cap THEN cap ELSE b * (2 ^ (n - 1))
    IN  Mul64(Int64(sec), Second)

C10_BackoffFormula ==
    (pc \in {"r_select", "r_done", "r_panic"} /\ consecutiveFailures >= 1) =>
        /\ currentInterval = MathBackoff(pollInterval, consecutiveFailures)
        /\ tickerInterval = currentInterval

\* C11: a successful status check that follows failures clears
\* consecutiveFailures and restores the active interval and the ticker to
\* baseInterval; whenever consecutiveFailures is 0 the active interval and the
\* ticker's period equal baseInterval.
C11_BackoffReset ==
    /\ (pc \in {"r_start", "r_select", "r_done"} /\ consecutiveFailures = 0) =>
           (currentInterval = pollInterval /\ tickerInterval = pollInterval)
    /\ (pc \in {"r_select", "r_done"} /\ lastAcq = "ok") => consecutiveFailures = 0

\* a status check succeeded after two failed ones and the interval is the
\* base interval again
C11_Witness ==
    /\ pc = "r_select"
    /\ lastAcq = "ok"
    /\ errAcqs = 2
    /\ okAcqs = 1
    /\ consecutiveFailures = 0
    /\ currentInterval = pollInterval
    /\ tickerInterval = pollInterval

\* ------------------------------------------------------------------------
\* Claims about cancellation, deletion-wait and the callback
\* ------------------------------------------------------------------------

\* C12: a condition-wait or deletion-wait that returns a context error
\* returns the cause the context carries (Canceled or DeadlineExceeded, never
\* nil), and a nil return always rests on a success: the last evaluation was
\* true (condition-wait) or the last acquisition was not-found (deletion-wait).
C12_CancellationCause ==
    /\ (pc \in {"w_done", "d_done"} /\ ret \in {"canceled", "deadline"}) =>
           (ret = ctx /\ acquisitions = okAcqs + errAcqs)
    /\ (pc = "w_done" /\ ret = "nil") => (result = TRUE /\ lastAcq = "ok")
    /\ (pc = "d_done" /\ ret = "nil") => lastAcq = "notfound"
    /\ pc = "d_done" => ret \in {"nil", "canceled", "deadline"}
    /\ pc = "w_done" => ret \in {"nil", "canceled", "deadline", "getError"}

\* a deletion-wait ended by the deadline after an acquisition that still
\* resolved the resource
C12_Witness ==
    /\ pc = "d_done"
    /\ ret = "deadline"
    /\ ctx = "deadline"
    /\ lastAcq = "ok"
    /\ acquisitions = 1

\* C13 as stated: once the context is done, the next step the wait takes
\* from its select is the return of the cause, with no further acquisition or
\* callback invocation, even when a tick is pending.
C13_CancelImmediate ==
    [][(pc = "w_select" /\ ctx # "live" /\ pc' # pc) =>
           /\ pc' = "w_done"
           /\ ret' = ctx
           /\ acquisitions' = acquisitions
           /\ sinkCalls' = sinkCalls]_vars

\* C13 amended: once the context is done and no tick is pending, the next
\* step the wait takes from its select is the return of the cause, with no
\* further acquisition or callback invocation; with a tick pending at the
\* same moment the select may take either case.
C13_CancelWithoutTick ==
    [][(pc = "w_select" /\ ctx # "live" /\ ~tickPending /\ pc' # pc) =>
           /\ pc' = "w_done"
           /\ ret' = ctx
           /\ acquisitions' = acquisitions
           /\ sinkCalls' = sinkCalls]_vars

\* the wait returned the caller's cancellation from its select with no tick
\* pending, after two acquisitions
C13_Witness ==
    /\ pc = "w_done"
    /\ ret = "canceled"
    /\ ctx = "canceled"
    /\ ~tickPending
    /\ acquisitions = 2
    /\ okAcqs + errAcqs = 2

\* C14: WaitForCondition never returns before its first acquisition has
\* returned, whatever the state of the context at its start: a return of the
\* context's cause comes after at least one acquisition, its evaluation and
\* its callback invocation.
C14_AcquiresBeforeCancelCheck ==
    /\ pc \in {"w_start", "w_initGet", "w_initEval"} => ret = "none"
    /\ pc \in {"w_initGet", "w_initEval", "w_select", "w_done"} => acquisitions >= 1
    /\ (pc = "w_done" /\ ret \in {"canceled", "deadline"}) =>
           /\ okAcqs >= 1
           /\ callback => sinkCalls >= 1

\* the wait returned the cancellation after exactly its pre-timer
\* acquisition and evaluation
C14_Witness ==
    /\ pc = "w_done"
    /\ ret = "canceled"
    /\ acquisitions = 1
    /\ okAcqs = 1
    /\ callback
    /\ sinkCalls = 1

\* C15: deletion-wait returns nil exactly when an acquisition returned the
\* not-found error: it has not returned nil while every acquisition resolved
\* the resource or failed otherwise, and the first not-found result makes it
\* return nil.
C15_DeletionSuccessIffNotFound ==
    /\ (pc = "d_done" /\ ret = "nil") => lastAcq = "notfound"
    /\ lastAcq = "notfound" => (pc = "d_done" /\ ret = "nil")
    /\ pc \in {"d_select", "d_get"} => ret = "none"

\* the resource resolved once, an acquisition failed otherwise, and the third
\* acquisition returned not-found: the wait returned nil
C15_Witness ==
    /\ pc = "d_done"
    /\ ret = "nil"
    /\ lastAcq = "notfound"
    /\ okAcqs = 1
    /\ errAcqs = 2

\* C16: in deletion-wait the ticker keeps the period pollInterval whatever
\* the acquisitions return, and after an error other than not-found the loop
\* is back at its select with the ticker running (it ends only through the
\* context).
C16_DeletionErrorKeepsInterval ==
    /\ pc \in {"d_select", "d_get", "d_done"} =>
           (tickerInterval = pollInterval /\ ticker \in {"running", "stopped"})
    /\ (pc \in {"d_select", "d_get", "d_done"} /\ lastAcq = "transient") =>
           \/ pc \in {"d_select", "d_get"} /\ ticker = "running" /\ ret = "none"
           \/ pc = "d_done" /\ ret \in {"canceled", "deadline"}

\* two acquisitions in a row failed with another error and the loop is at
\* its select with the same period
C16_Witness ==
    /\ pc = "d_select"
    /\ failedPolls = 2
    /\ lastAcq = "transient"
    /\ ticker = "running"
    /\ tickerInterval = pollInterval
    /\ ret = "none"

\* C17: with a callback, the number of callback invocations equals the
\* number of acquisitions that returned a snapshot, the first included, once
\* the snapshot has been evaluated (a snapshot just acquired is reported in
\* the step that evaluates it); failed acquisitions add no invocation, and
\* without a callback there is none.
C17_SinkOncePerSnapshot ==
    pc \in {"w_start", "w_initGet", "w_initEval", "w_select", "w_pollGet", "w_pollEval",
            "w_done"} =>
        LET evaluated == IF pc \in {"w_initEval", "w_pollEval"} THEN okAcqs - 1 ELSE okAcqs
        IN  /\ callback => sinkCalls = evaluated
            /\ ~callback => sinkCalls = 0
            /\ acquisitions >= okAcqs + errAcqs

\* two snapshots were acquired and reported, one poll failed in between
C17_Witness ==
    /\ pc = "w_select"
    /\ callback
    /\ okAcqs = 2
    /\ errAcqs = 1
    /\ sinkCalls = 2

C19_OneOutstandingAcquisition ==
    pc \in {"w_start", "w_initGet", "w_initEval", "w_select", "w_pollGet", "w_pollEval",
            "w_done"} =>
        LET outstanding == acquisitions - (okAcqs + errAcqs)
        IN  /\ outstanding \in {0, 1}
            /\ outstanding = 1 <=> pc \in {"w_initGet", "w_pollGet"}
            /\ (pc \in {"w_initGet", "w_pollGet"} /\ callback) => sinkCalls = okAcqs

\* the third acquisition is under way after two reported snapshots
C19_Witness ==
    /\ pc = "w_pollGet"
    /\ acquisitions = 3
    /\ okAcqs = 2
    /\ callback
    /\ sinkCalls = 2

IsResourceTerm(e) == Contains(e, <<":">>)

SelectorOf(e) == Split(TrimSpace(SplitN2(e, <<":">>)[1]), "/")

CheckOf(e) == TrimSpace(SplitN2(e, <<":">>)[2])

\* the resource has the kind, and the name and namespace if given, of the
\* selector of e
Selects(e, rs) ==
    LET sel == SelectorOf(e)
    IN  /\ EqualFold(rs.Kind, sel[1])
        /\ Len(sel) = 2 => EqualFold(rs.Name, sel[2])
        /\ Len(sel) >= 3 => (EqualFold(rs.Namespace, sel[2]) /\ EqualFold(rs.Name, sel[3]))

\* the comparison operator of a check, <<>> for a bare condition name
OperatorOf(check) ==
    IF Contains(check, <<">", "=">>) THEN <<">", "=">>
    ELSE IF Contains(check, <<"<", "=">>) THEN <<"<", "=">>
    ELSE IF Contains(check, <<">">>) THEN <<">">>
    ELSE IF Contains(check, <<"<">>) THEN <<"<">>
    ELSE IF Contains(check, <<"=">>) THEN <<"=">>
    ELSE <<>>

\* the resource, taken alone, satisfies the check
Satisfies(rs, check) ==
    IF OperatorOf(check) # <<>>
    THEN evaluateComparison(rs.StatusFeedback, check, OperatorOf(check))
    ELSE resourceConditionMatches(rs, check)

\* the gate lets the resource through
PassesGate(d, rs) ==
    LET applied == manifestAppliedTime(d)
    IN  applied.set => resourceFresh(rs, applied.t)

\* C23: a resource term is true iff at least one fresh resource matching the
\* selector satisfies the check, for a bare condition name and for a field
\* comparison alike: a matching resource that fails the check is passed over.
C23_AnyFreshMatchSatisfies ==
    (pc = "done" /\ IsResourceTerm(expr)) =>
        result = (\E i \in 1..Len(details.ResourceStatus) :
                     /\ Selects(expr, details.ResourceStatus[i])
                     /\ PassesGate(details, details.ResourceStatus[i])
                     /\ Satisfies(details.ResourceStatus[i], CheckOf(expr)))

\* some condition of the list has the type and a parseable time
TimedConds(conds, type) ==
    {i \in 1..Len(conds) :
        EqualFold(conds[i].Type, type) /\ Parseable(conds[i].LastTransitionTime)}

\* the list without the elements at the positions in drop
RECURSIVE Without(_, _, _)
Without(seq, drop, i) ==
    IF i > Len(seq) THEN <<>>
    ELSE (IF i \in drop THEN <<>> ELSE <<seq[i]>>) \o Without(seq, drop, i + 1)

\* the resources that have an Applied condition, of any status and at any
\* position, timed before an item-level Applied condition
StaleByAnyApplied(d) ==
    {i \in 1..Len(d.ResourceStatus) :
        \E j \in TimedConds(d.Conditions, AppliedStr) :
            \E k \in TimedConds(d.ResourceStatus[i].Conditions, AppliedStr) :
                Instant(d.ResourceStatus[i].Conditions[k].LastTransitionTime)
                    < Instant(d.Conditions[j].LastTransitionTime)}

FirstTrue(conds, type, timed) ==
    LET at == {i \in 1..Len(conds) :
                  /\ EqualFold(conds[i].Type, type)
                  /\ conds[i].Status = "True"
                  /\ timed => conds[i].LastTransitionTime # <<>>}
    IN  IF at = {} THEN 0 ELSE SetMin(at)

\* the resources whose first True Applied condition is timed before the
\* item's first True Applied condition that has a timestamp
StaleByFirstApplied(d) ==
    LET j == FirstTrue(d.Conditions, AppliedStr, TRUE)
    IN  {i \in 1..Len(d.ResourceStatus) :
            LET k == FirstTrue(d.ResourceStatus[i].Conditions, AppliedStr, FALSE)
            IN  /\ j # 0
                /\ k # 0
                /\ Parseable(d.Conditions[j].LastTransitionTime)
                /\ Parseable(d.ResourceStatus[i].Conditions[k].LastTransitionTime)
                /\ Instant(d.ResourceStatus[i].Conditions[k].LastTransitionTime)
                       < Instant(d.Conditions[j].LastTransitionTime)}

\* the first resource the selector of e matches, 0 when there is none
FirstSelected(d, e) ==
    LET at == {i \in 1..Len(d.ResourceStatus) : Selects(e, d.ResourceStatus[i])}
    IN  IF at = {} THEN 0 ELSE SetMin(at)

FirstFresh(d, e) ==
    LET at == {i \in 1..Len(d.ResourceStatus) :
                  Selects(e, d.ResourceStatus[i]) /\ PassesGate(d, d.ResourceStatus[i])}
    IN  IF at = {} THEN 0 ELSE SetMin(at)

ComparisonExpr(op, n) ==
    kindJob \o <<"/">> \o nameX \o <<":">> \o fieldSucceeded \o op \o FormatNat(n)

\* C25: for the Job named x whose feedback field succeeded holds the integer
\* v, "Job/x:succeeded>=n" is true iff v >= n, and likewise for <=, > and <,
\* for all v and n in 0..MaxInt.
C25_FieldComparison ==
    \A n \in 0..MaxInt, v \in 0..MaxInt :
        LET i == FirstFresh(details, expr)
            holds == i # 0 /\ MapGet(details.ResourceStatus[i].StatusFeedback,
                                     fieldSucceeded) = Int64Val(v)
        IN  /\ (pc = "done" /\ expr = ComparisonExpr(<<">", "=">>, n) /\ holds)
                   => result = (v >= n)
            /\ (pc = "done" /\ expr = ComparisonExpr(<<"<", "=">>, n) /\ holds)
                   => result = (v <= n)
            /\ (pc = "done" /\ expr = ComparisonExpr(<<">">>, n) /\ holds)
                   => result = (v > n)
            /\ (pc = "done" /\ expr = ComparisonExpr(<<"<">>, n) /\ holds)
                   => result = (v < n)

\* "Job/x:succeeded>=1" was evaluated to true on a Job x with succeeded = 2
C25_Witness ==
    /\ pc = "done"
    /\ expr = ComparisonExpr(<<">", "=">>, 1)
    /\ FirstFresh(details, expr) # 0
    /\ MapGet(details.ResourceStatus[FirstFresh(details, expr)].StatusFeedback,
              fieldSucceeded) = Int64Val(2)
    /\ result = TRUE

\* ------------------------------------------------------------------------
\* Claims about top-level terms and operators
\* ------------------------------------------------------------------------

\* some condition of the snapshot has the type, ignoring case, and status True
HasTrue(d, type) ==
    \E i \in 1..Len(d.Conditions) :
        /\ Len(d.Conditions[i].Type) = Len(type)
        /\ \A k \in 1..Len(type) : ToLower(d.Conditions[i].Type[k]) = ToLower(type[k])
        /\ d.Conditions[i].Status = "True"

NoApplied(d) ==
    \A i \in 1..Len(d.Conditions) : ~EqualFold(d.Conditions[i].Type, AppliedStr)

\* C26: on a snapshot without an Applied condition, "x AND y" is true iff
\* both conditions have status True and "x OR y" is true iff at least one
\* has, for all condition names x and y.
C26_AndOrTruthTable ==
    \A x, y \in Names :
        /\ (pc = "done" /\ NoApplied(details) /\ expr = Join(<<x, opAND, y>>))
               => result = (HasTrue(details, x) /\ HasTrue(details, y))
        /\ (pc = "done" /\ NoApplied(details) /\ expr = Join(<<x, opOR, y>>))
               => result = (HasTrue(details, x) \/ HasTrue(details, y))

\* "A OR B" was evaluated to true with A True and B not True
C26_Witness ==
    /\ pc = "done"
    /\ NoApplied(details)
    /\ expr = Join(<<nameA, opOR, nameB>>)
    /\ HasTrue(details, nameA)
    /\ ~HasTrue(details, nameB)
    /\ result = TRUE

\* C27: on a snapshot without an Applied condition a top-level term is true
\* iff some condition has its type, ignoring letter case, and status exactly
\* "True"; status False, Unknown or "true", or no such condition, gives false.
C27_TopLevelTerm ==
    (pc = "done" /\ NoApplied(details) /\ ~Contains(expr, <<" ">>)) =>
        result = HasTrue(details, expr)

\* "a" was evaluated to true on a snapshot whose condition A is True, next to
\* a condition that is Unknown
C27_Witness ==
    /\ pc = "done"
    /\ NoApplied(details)
    /\ expr = <<"a">>
    /\ \E i \in 1..Len(details.Conditions) :
          details.Conditions[i] = Cond(nameA, "True", TNone)
    /\ \E i \in 1..Len(details.Conditions) : details.Conditions[i].Status = "Unknown"
    /\ result = TRUE

\* the positions of the conditions of the type with status True
TruePositions(conds, type) ==
    {i \in 1..Len(conds) : EqualFold(conds[i].Type, type) /\ conds[i].Status = "True"}

\* condition i is timed before condition j, both times being parseable
TimedBefore(conds, i, j) ==
    /\ Parseable(conds[i].LastTransitionTime)
    /\ Parseable(conds[j].LastTransitionTime)
    /\ Instant(conds[i].LastTransitionTime) < Instant(conds[j].LastTransitionTime)

\* C28: when several conditions of the target type have status True, the
\* freshness decision uses the last of them in list order: the term is false
\* iff that one is timed before the Applied condition used for the gate (the
\* last True one), whatever the times of the earlier duplicates.
C28_LastDuplicateDecides ==
    LET targets == TruePositions(details.Conditions, expr)
        applied == TruePositions(details.Conditions, AppliedStr)
    IN  (/\ pc = "done"
         /\ ~EqualFold(expr, AppliedStr)
         /\ Cardinality(targets) >= 2
         /\ applied # {})
        => result = ~TimedBefore(details.Conditions, SetMax(targets), SetMax(applied))

\* two True conditions A, the first fresh and the second stale: the term is
\* false, though the first one, and the most recent one, are fresh
C28_Witness ==
    LET targets == TruePositions(details.Conditions, expr)
        applied == TruePositions(details.Conditions, AppliedStr)
    IN  /\ pc = "done"
        /\ expr = nameA
        /\ Cardinality(targets) = 2
        /\ applied # {}
        /\ ~TimedBefore(details.Conditions, SetMin(targets), SetMax(applied))
        /\ TimedBefore(details.Conditions, SetMax(targets), SetMax(applied))
        /\ TimedBefore(details.Conditions, SetMax(targets), SetMin(targets))
        /\ result = FALSE

\* ------------------------------------------------------------------------
\* Claims about the commands and about the entry of deletion-wait
\* ------------------------------------------------------------------------

\* C21: when the condition-wait of a wait, apply or build command ended with
\* the context's error (deadline exceeded or cancelled), the command returns
\* a non-nil error whose message contains the condition expression.
C21_ErrorNamesExpression ==
    (/\ pc = "c_done"
     /\ command \in {"wait", "apply", "build"}
     /\ ret \in {"deadline", "canceled"})
    => (~cmdErr.nil /\ Contains(cmdErr.msg, expr))

\* the wait of a command is under way
InWait ==
    command # "none" /\ pc \in {"w_start", "w_initGet", "w_initEval", "w_select",
                                 "w_pollGet", "w_pollEval", "d_select", "d_get"}

C29_AcquiresBeforeFirstTick ==
    [][(pc = "d_select" /\ acquisitions = 0 /\ acquisitions' = 1) => ~tickPending]_vars

\* ------------------------------------------------------------------------
\* Claims about groups
\* ------------------------------------------------------------------------

\* each tree with its text
GroupedTable == {<<Render(t), t>> : t \in GroupedTrees}

\* the value of a tree: its operations applied to the truth of its names
RECURSIVE TreeValue(_, _)
TreeValue(d, t) ==
    IF t[1] = "leaf" THEN HasTrue(d, t[2])
    ELSE IF t[1] = "group" THEN TreeValue(d, t[2])
    ELSE IF t[2] = opAND THEN TreeValue(d, t[3]) /\ TreeValue(d, t[4])
    ELSE TreeValue(d, t[3]) \/ TreeValue(d, t[4])

\* C30: parentheses override precedence and operators inside a group are
\* never top-level splits: an expression in which every operand that is an
\* operation is parenthesised ("x AND (y OR z)", "(x AND y) OR z", and the
\* same with groups inside groups) has the value of its tree.
C30_GroupsOverridePrecedence ==
    (pc = "done" /\ Contains(expr, <<"(">>)) =>
        \A p \in GroupedTable : p[1] = expr => result = TreeValue(details, p[2])

\* "A OR (B AND (C OR A))" was evaluated to true with A not True and B and C
\* True
C30_Witness ==
    /\ pc = "done"
    /\ expr = Render(Node(opOR, Leaf(nameA),
                          Node(opAND, Leaf(nameB), Node(opOR, Leaf(nameC), Leaf(nameA)))))
    /\ ~HasTrue(details, nameA)
    /\ HasTrue(details, nameB)
    /\ HasTrue(details, nameC)
    /\ result = TRUE

\* ------------------------------------------------------------------------
\* Claims about a leading group and about inline operators
\* ------------------------------------------------------------------------

\* C31: a leading group followed by a mixed chain keeps the precedence of
\* the grammar: "(x OR y) AND z OR w" evaluates to ((x \/ y) /\ z) \/ w for
\* all condition names x, y, z, w and every snapshot.
C31_LeadingGroupKeepsPrecedence ==
    \A x, y, z, w \in Names :
        ( /\ pc = "done"
          /\ expr = <<"(">> \o Join(<<x, opOR, y>>) \o <<")", " ">>
                        \o Join(<<opAND, z, opOR, w>>) ) =>
            result = (((Eval(x) \/ Eval(y)) /\ Eval(z)) \/ Eval(w))

\* C32: the symbolic operators written inline are recognised: "x&&y"
\* evaluates as "x AND y" and "x||y" as "x OR y", for all condition names
\* x, y and every snapshot, also when the word that holds the operator is
\* the last word of the expression.
C32_InlineOperators ==
    \A x, y \in Names :
        /\ (pc = "done" /\ expr = x \o opAmp \o y) =>
               result = Eval(Join(<<x, opAND, y>>))
        /\ (pc = "done" /\ expr = x \o opBar \o y) =>
               result = Eval(Join(<<x, opOR, y>>))

\* the same for an inline operator in a word that is not the last one:
\* "x&&y AND z" and "x||y OR z"
C32_InlineOperatorsBeforeLastWord ==
    \A x, y, z \in Names :
        /\ (pc = "done" /\ expr = Join(<<x \o opAmp \o y, opAND, z>>)) =>
               result = Eval(Join(<<x, opAND, y, opAND, z>>))
        /\ (pc = "done" /\ expr = Join(<<x \o opBar \o y, opOR, z>>)) =>
               result = Eval(Join(<<x, opOR, y, opOR, z>>))

\* ------------------------------------------------------------------------
\* Claims about condition names and field paths of resource terms
\* ------------------------------------------------------------------------

\* the two strings are equal up to the case of their letters
SameIgnoringCase(a, b) ==
    /\ Len(a) = Len(b)
    /\ \A k \in 1..Len(a) : ToLower(a[k]) = ToLower(b[k])

\* the value is an array with an entry that is a map whose "type" is the
\* string type (ignoring case) and whose "status" is the string "True"
ArrayReportsTrue(v, type) ==
    /\ v.kind = "list"
    /\ \E i \in 1..Len(v.entries) :
          LET c == v.entries[i].val
          IN  /\ c.kind = "map"
              /\ \E j, k \in 1..Len(c.entries) :
                    /\ c.entries[j].key = <<"t", "y", "p", "e">>
                    /\ c.entries[j].val.kind = "string"
                    /\ SameIgnoringCase(c.entries[j].val.str, type)
                    /\ c.entries[k].key = <<"s", "t", "a", "t", "u", "s">>
                    /\ c.entries[k].val = StringVal(<<"T", "r", "u", "e">>)

\* the resource reports the condition type with status True: among its own
\* conditions, or in the conditions array of its feedback, directly or
\* under status
ReportsTrue(rs, type) ==
    \/ \E i \in 1..Len(rs.Conditions) :
          /\ SameIgnoringCase(rs.Conditions[i].Type, type)
          /\ rs.Conditions[i].Status = "True"
    \/ /\ rs.StatusFeedback.kind = "map"
       /\ \E j \in 1..Len(rs.StatusFeedback.entries) :
             LET e == rs.StatusFeedback.entries[j]
             IN  \/ /\ e.key = <<"c", "o", "n", "d", "i", "t", "i", "o", "n", "s">>
                    /\ ArrayReportsTrue(e.val, type)
                 \/ /\ e.key = <<"s", "t", "a", "t", "u", "s">>
                    /\ e.val.kind = "map"
                    /\ \E k \in 1..Len(e.val.entries) :
                          /\ e.val.entries[k].key
                                 = <<"c", "o", "n", "d", "i", "t", "i", "o", "n", "s">>
                          /\ ArrayReportsTrue(e.val.entries[k].val, type)

\* C33: a resource term whose check is a bare condition name is true iff
\* some fresh resource matching the selector reports that type with status
\* True, among its own conditions (ignoring case) or in the conditions array
\* of its statusFeedback, directly or under status; a resource that does not
\* is passed over.
C33_BareConditionName ==
    (pc = "done" /\ IsResourceTerm(expr) /\ OperatorOf(CheckOf(expr)) = <<>>) =>
        result = (\E i \in 1..Len(details.ResourceStatus) :
                     /\ Selects(expr, details.ResourceStatus[i])
                     /\ PassesGate(details, details.ResourceStatus[i])
                     /\ ReportsTrue(details.ResourceStatus[i], CheckOf(expr)))

\* "job/X:complete" was evaluated to true on a snapshot whose only matching
\* resource reports Complete = False itself and Complete = "True" in the
\* conditions array under status of its feedback
C33_Witness ==
    /\ pc = "done"
    /\ expr = <<"j", "o", "b", "/", "X", ":", "c", "o", "m", "p", "l", "e", "t", "e">>
    /\ Len(details.ResourceStatus) = 1
    /\ details.ResourceStatus[1].Conditions = <<Cond(condComplete, "False", TNone)>>
    /\ MapGet(details.ResourceStatus[1].StatusFeedback,
              <<"s", "t", "a", "t", "u", "s">>).kind = "map"
    /\ result = TRUE

\* the dot-separated path of a comparison check: the text before the operator
PathOf(check) == Split(TrimSpace(SplitN2(check, OperatorOf(check))[1]), ".")

\* the path leads to a value: the document is a map that holds the first
\* key, and the rest of the path, if any, resolves in the value under it
RECURSIVE Resolves(_, _)
Resolves(v, parts) ==
    /\ v.kind = "map"
    /\ \E i \in 1..Len(v.entries) :
          /\ v.entries[i].key = parts[1]
          /\ v.entries[i].val.kind # "nil"
          /\ Len(parts) > 1 => Resolves(v.entries[i].val, Tail(parts))

\* C34: a field comparison whose path does not resolve in the feedback of
\* the resource it is evaluated on (a key is missing at some level, a value
\* on the way is not a map, or the resource has no feedback) is false, for
\* each of the operators >=, <=, >, < and =.
C34_UnresolvedPathIsFalse ==
    (pc = "done" /\ IsResourceTerm(expr) /\ OperatorOf(CheckOf(expr)) # <<>>) =>
        LET i == FirstFresh(details, expr)
        IN  (/\ i # 0
             /\ ~Resolves(details.ResourceStatus[i].StatusFeedback,
                          PathOf(CheckOf(expr))))
            => result = FALSE

\* "Job/x:status.succeeded>=1" was evaluated to false on a Job x that holds
\* succeeded = 1 directly, not under status
C34_Witness ==
    /\ pc = "done"
    /\ expr = kindJob \o <<"/">> \o nameX \o <<":">> \o <<"s", "t", "a", "t", "u", "s", ".">>
                  \o fieldSucceeded \o <<">", "=", "1">>
    /\ Len(details.ResourceStatus) >= 1
    /\ details.ResourceStatus[1].StatusFeedback
           = MapVal(<<Entry(fieldSucceeded, Int64Val(1))>>)
    /\ result = FALSE

\* ------------------------------------------------------------------------
\* Claims about the ticker, the sink and the end of the loops
\* ------------------------------------------------------------------------

\* C35: no timer leak: when WaitForCondition or WaitForDeletion has
\* returned, on whichever path, no ticker is left running (one that was
\* created has been stopped), and WaitForCondition has no ticker as long as
\* its initial check has not completed.
C35_NoTimerLeak ==
    /\ pc \in {"w_done", "d_done"} => ticker \in {"none", "stopped"}
    /\ pc \in {"w_start", "w_initGet", "w_initEval"} => ticker = "none"
    /\ ticker = "none" => ~tickPending

\* the condition-wait was cancelled in its loop and returned with its
\* ticker stopped
C35_Witness ==
    /\ pc = "w_done"
    /\ ret = "canceled"
    /\ acquisitions > 1
    /\ ticker = "stopped"

\* C36: backoff bounds under overflow: after any number n >= 1 of
\* consecutive failed status checks, also when 1 << (n-1) or the product
\* with baseInterval overflows 64 bits, the interval given to the ticker is
\* strictly positive and at most 5 minutes.
C36_BackoffBounds ==
    (pc \in {"r_select", "r_done", "r_panic"} /\ consecutiveFailures >= 1) =>
        /\ Less64(Zero64, currentInterval)
        /\ ~Less64(maxInterval, currentInterval)

\* ------------------------------------------------------------------------
\* Claims about the item-level Applied reference
\* ------------------------------------------------------------------------

\* the item-level Applied instant that the gate of top-level terms compares
\* with: that of the Applied condition checkDetailsCondition ends its scan
\* with, when it has a timestamp that parses; [set, t] as manifestAppliedTime
TopLevelAppliedTime(d) ==
    LET i      == LastTrueCond(d.Conditions, AppliedStr)
        parsed == TimeParse(d.Conditions[i].LastTransitionTime)
    IN  IF i = 0 THEN [set |-> FALSE, t |-> 0]
        ELSE IF d.Conditions[i].LastTransitionTime = <<>> \/ parsed.err
             THEN [set |-> FALSE, t |-> 0]
        ELSE [set |-> TRUE, t |-> parsed.t]

\* C37: one item-level Applied reference: on every snapshot a resource term
\* is evaluated on, also one with several Applied conditions, the item-level
\* Applied instant of the resource gate is the one of the top-level gate.
C37_OneAppliedReference ==
    (pc = "done" /\ IsResourceTerm(expr)) =>
        manifestAppliedTime(details) = TopLevelAppliedTime(details)

\* C38: sink and result agree.  result is the conditionMet of the latest
\* evaluation, which is what the sink was called with last.  A sink call
\* with conditionMet = true ends the wait at once with nil, so that it
\* happens at most once and is the last call; no sink call follows the
\* return; as long as the wait goes on every call so far reported false; a
\* finished wait that called the sink returned nil iff its last call
\* reported true; and a wait ended by the deadline or by cancellation only
\* ever reported false.
C38_SinkResultConsistent ==
    /\ [][(sinkCalls' = sinkCalls + 1 /\ result') => (pc' = "w_done" /\ ret' = "nil")]_vars
    /\ [][pc = "w_done" => sinkCalls' = sinkCalls]_vars
    /\ []((callback /\ pc \in {"w_start", "w_initGet", "w_initEval", "w_select",
                                "w_pollGet", "w_pollEval"}) => result = FALSE)
    /\ []((pc = "w_done" /\ sinkCalls > 0) => (ret = "nil" <=> result = TRUE))
    /\ []((pc = "w_done" /\ ret \in {"canceled", "deadline"}) => result = FALSE)

\* a wait with a callback returned nil after its second sink call, the
\* first having reported false
C38_Witness ==
    /\ pc = "w_done"
    /\ callback
    /\ sinkCalls = 2
    /\ ret = "nil"
    /\ result = TRUE

\* C39: the watch loop treats a done context as a normal stop: its
\* ctx.Done() case returns nil, after any number of failed status checks,
\* and the watch has no other return; the ctx.Done() cases of the
\* condition-wait and of the deletion-wait return the context's error.
C39_WatchStopsWithoutError ==
    /\ [][(pc = "r_select" /\ pc' = "r_done") => (ctx # "live" /\ ret' = "nil")]_vars
    /\ [][(pc = "w_select" /\ pc' = "w_done") => (ctx # "live" /\ ret' = ctx)]_vars
    /\ [][(pc = "d_select" /\ pc' = "d_done") => (ctx # "live" /\ ret' = ctx)]_vars
    /\ [](pc = "r_done" => (ret = "nil" /\ ctx \in {"canceled", "deadline"}))

\* the watch stopped on its timeout after two failed status checks and
\* returned nil
C39_Witness ==
    /\ pc = "r_done"
    /\ ctx = "deadline"
    /\ errAcqs = 2
    /\ consecutiveFailures = 2
    /\ ret = "nil"

\* from here on things go well for the wait: the latest acquisition has
\* succeeded, a snapshot under evaluation satisfies the expression, and the
\* select has not used up the acquisitions of the model
GoesWell ==
    /\ lastAcq = "ok"
    /\ pc \in {"w_initEval", "w_pollEval"} => evaluateConditionExpression(details, expr)
    /\ pc = "w_select" => acquisitions < MaxPolls

\* C40: liveness of the condition-wait: when from some point on every
\* acquisition succeeds and every acquired snapshot satisfies the
\* expression, and the context is never done, WaitForCondition
\* eventually returns nil, under fair scheduling of the ticks.
C40_EventuallySucceeds ==
    ([](ctx = "live") /\ <>[]GoesWell) => <>(pc = "w_done" /\ ret = "nil")

\* the wait returned nil on a polled snapshot after a failed poll, the
\* context still live
C40_Witness ==
    /\ pc = "w_done"
    /\ ret = "nil"
    /\ ctx = "live"
    /\ errAcqs = 1
    /\ okAcqs = 2

====
